---- MODULE Spec2Model ----
(***************************************************************************)
(* A model of the okra expression engine (core/dsl.go): the lexer, the     *)
(* precedence-climbing parser, the evaluation of the AST over dynamic      *)
(* values, and the copy-on-write function registry of an Engine.           *)
(*                                                                         *)
(* Text is a sequence of one-character strings; a position is the number   *)
(* of bytes already consumed, as in the Go code (l.pos).                   *)
(***************************************************************************)
EXTENDS Integers, Sequences, FiniteSets, TLC

\* ---------------------------------------------------------------------------
\* Bounds of the model and constants of the program
\* ---------------------------------------------------------------------------

\* const MaxStackDepth = 256
MaxStackDepth == 256

\* longest expression text enumerated character by character
MaxLen == 4

\* how far past MaxStackDepth the nested probe expressions go
MaxOver == 1

NoErr == "nil"

\* ---------------------------------------------------------------------------
\* Characters
\* ---------------------------------------------------------------------------

Digits == {"0", "1", "2", "3", "4", "5", "6", "7", "8", "9"}
LowerLetters == {"a", "b", "c", "d", "e", "f", "i", "k", "l", "m", "n", "o", "q", "r", "s",
                 "t", "u", "w", "x", "y", "z"}
UpperLetters == {"E", "L", "N"}
Letters == LowerLetters \cup UpperLetters
Spaces == {" "}

IsDigit(c) == c \in Digits
IsLetter(c) == c \in Letters
IsSpace(c) == c \in Spaces

\* s[pos] of the Go code, positions counted from 0
CharAt(s, pos) == s[pos + 1]

\* s[from:to] of the Go code
Slice(s, from, to) == SubSeq(s, from + 1, to)

\* ---------------------------------------------------------------------------
\* Lexer
\* ---------------------------------------------------------------------------

Tok(typ, val, pos) == [typ |-> typ, val |-> val, pos |-> pos]

\* the zero token{} of Go: typ 0 is tEOF
ZeroTok == Tok("tEOF", <<>>, 0)

LexOk(tok, pos) == [tok |-> tok, pos |-> pos, err |-> NoErr]
LexErr(pos, err) == [tok |-> ZeroTok, pos |-> pos, err |-> err]

RECURSIVE skipSpace(_, _)
skipSpace(s, pos) ==
  IF pos < Len(s) /\ IsSpace(CharAt(s, pos)) THEN skipSpace(s, pos + 1) ELSE pos

RECURSIVE scanNumber(_, _)
scanNumber(s, pos) ==
  IF pos < Len(s) /\ (IsDigit(CharAt(s, pos)) \/ CharAt(s, pos) = ".")
  THEN scanNumber(s, pos + 1) ELSE pos

RECURSIVE scanIdent(_, _)
scanIdent(s, pos) ==
  IF pos < Len(s) /\ (IsLetter(CharAt(s, pos)) \/ IsDigit(CharAt(s, pos)) \/ CharAt(s, pos) = "_")
  THEN scanIdent(s, pos + 1) ELSE pos

\* strconv.UnquoteChar on s[pos:], where s[pos] is a backslash that is not
\* followed by the quote q.  Result: the decoded rune (named by a string),
\* the number of bytes consumed, and whether decoding failed.
SimpleEscapes == {"a", "b", "f", "n", "r", "t", "v", "\\"}
HexDigits == Digits \cup {"a", "b", "c", "d", "e", "f"}
OctDigits == {"0", "1", "2", "3", "4", "5", "6", "7"}

AllIn(s, from, n, set) ==
  /\ from + n <= Len(s)
  /\ \A i \in 0 .. (n - 1) : CharAt(s, from + i) \in set

RuneName(s, from, to) ==
  LET F[i \in from .. to] == IF i = to THEN "" ELSE CharAt(s, i) \o F[i + 1]
  IN F[from]

UnquoteChar(s, pos, q) ==
  IF pos + 1 >= Len(s) THEN [ok |-> FALSE, rune |-> "", n |-> 0]
  ELSE LET c == CharAt(s, pos + 1) IN
    CASE c \in SimpleEscapes -> [ok |-> TRUE, rune |-> "\\" \o c, n |-> 2]
      [] c = "x" -> IF AllIn(s, pos + 2, 2, HexDigits)
                    THEN [ok |-> TRUE, rune |-> RuneName(s, pos, pos + 4), n |-> 4]
                    ELSE [ok |-> FALSE, rune |-> "", n |-> 0]
      [] c = "u" -> IF AllIn(s, pos + 2, 4, HexDigits)
                       /\ ~(CharAt(s, pos + 2) = "d" /\ CharAt(s, pos + 3) \in {"8", "9", "a", "b", "c", "d", "e", "f"})
                    THEN [ok |-> TRUE, rune |-> RuneName(s, pos, pos + 6), n |-> 6]
                    ELSE [ok |-> FALSE, rune |-> "", n |-> 0]
      [] c \in OctDigits -> IF AllIn(s, pos + 2, 2, OctDigits) /\ c \in {"0", "1", "2", "3"}
                            THEN [ok |-> TRUE, rune |-> RuneName(s, pos, pos + 4), n |-> 4]
                            ELSE [ok |-> FALSE, rune |-> "", n |-> 0]
      [] OTHER -> [ok |-> FALSE, rune |-> "", n |-> 0]

\* the loop of the string case of nextToken; sb is the strings.Builder
RECURSIVE scanString(_, _, _, _, _)
scanString(s, start, pos, q, sb) ==
  IF pos >= Len(s) THEN LexErr(pos, "unterminated string")
  ELSE LET curr == CharAt(s, pos) IN
    IF curr = q THEN LexOk(Tok("tString", sb, start), pos + 1)
    ELSE IF curr = "\\" THEN
      IF pos + 1 < Len(s) /\ CharAt(s, pos + 1) = q
      THEN scanString(s, start, pos + 2, q, Append(sb, q))
      ELSE LET u == UnquoteChar(s, pos, q) IN
        IF ~u.ok THEN LexErr(pos, "invalid syntax")
        ELSE scanString(s, start, pos + u.n, q, Append(sb, u.rune))
    ELSE scanString(s, start, pos + 1, q, Append(sb, curr))

TwoCharOps == {<<"=", "=">>, <<"!", "=">>, <<"<", "=">>, <<">", "=">>,
               <<"&", "&">>, <<"|", "|">>, <<"<", "<">>, <<">", ">">>}

\* (l *lexer) nextToken, from position pos of text s
nextToken(s, pos0) ==
  LET pos == skipSpace(s, pos0) IN
  IF pos >= Len(s) THEN LexOk(Tok("tEOF", <<>>, pos), pos)
  ELSE LET start == pos
           r == CharAt(s, pos)
       IN
    CASE IsDigit(r) ->
           LET e == scanNumber(s, pos + 1) IN LexOk(Tok("tNumber", Slice(s, start, e), start), e)
      [] IsLetter(r) \/ r = "_" ->
           LET e == scanIdent(s, pos + 1) IN LexOk(Tok("tIdent", Slice(s, start, e), start), e)
      [] r = "\"" \/ r = "'" -> scanString(s, start, pos + 1, r, <<>>)
      [] r = "[" -> LexOk(Tok("tOp", <<"[">>, start), pos + 1)
      [] r = "]" -> LexOk(Tok("tOp", <<"]">>, start), pos + 1)
      [] r = "(" -> LexOk(Tok("tLParen", <<"(">>, start), pos + 1)
      [] r = ")" -> LexOk(Tok("tRParen", <<")">>, start), pos + 1)
      [] r = "," -> LexOk(Tok("tComma", <<",">>, start), pos + 1)
      [] r = "." -> LexOk(Tok("tOp", <<".">>, start), pos + 1)
      [] OTHER ->
           IF start + 2 <= Len(s) /\ Slice(s, start, start + 2) \in TwoCharOps
           THEN LexOk(Tok("tOp", Slice(s, start, start + 2), start), start + 2)
           ELSE LexOk(Tok("tOp", <<r>>, start), pos + 1)

\* ---------------------------------------------------------------------------
\* Dynamic values
\* ---------------------------------------------------------------------------

Abs(n) == IF n < 0 THEN -n ELSE n

RECURSIVE GCD(_, _)
GCD(a, b) == IF b = 0 THEN a ELSE GCD(b, a % b)

\* the dynamic values: nil, bool, int64, float64 and string.  The integers
\* of the model are exact; the bounded inputs stay far from the int64 limits.
Nil == [t |-> "nil"]
BoolV(b) == [t |-> "bool", v |-> b]
IntV(i) == [t |-> "int64", v |-> i]
StrV(s) == [t |-> "string", v |-> s]

\* a float64 is modelled by the rational n/d in lowest terms, d > 0;
\* NaN is the float with d = 0
FloatV(n, d) ==
  LET g == GCD(Abs(n), d) IN [t |-> "float", n |-> n \div g, d |-> d \div g]
NaN == [t |-> "float", n |-> 0, d |-> 0]
IsNaN(f) == f.d = 0

DigitVal(c) == CHOOSE i \in 0 .. 9 : ToString(i) = c

\* value of a string of decimal digits
RECURSIVE DigitsVal(_)
DigitsVal(ds) ==
  IF ds = <<>> THEN 0
  ELSE 10 * DigitsVal(SubSeq(ds, 1, Len(ds) - 1)) + DigitVal(ds[Len(ds)])

RECURSIVE Pow10(_)
Pow10(k) == IF k = 0 THEN 1 ELSE 10 * Pow10(k - 1)

IsDigits(s) == \A i \in 1 .. Len(s) : s[i] \in Digits

\* strconv.ParseInt(s, 10, 64): the value and whether err == nil
ParseInt(s) ==
  LET neg == Len(s) > 0 /\ s[1] = "-"
      body == IF Len(s) > 0 /\ s[1] \in {"-", "+"} THEN Tail(s) ELSE s
  IN IF body = <<>> \/ ~IsDigits(body) THEN [v |-> 0, ok |-> FALSE]
     ELSE [v |-> IF neg THEN -DigitsVal(body) ELSE DigitsVal(body), ok |-> TRUE]

\* strconv.ParseFloat(s, 64) for decimal text (sign, digits, at most one
\* point, at least one digit); anything else is a syntax error with value 0
ParseFloat(s) ==
  LET neg == Len(s) > 0 /\ s[1] = "-"
      body == IF Len(s) > 0 /\ s[1] \in {"-", "+"} THEN Tail(s) ELSE s
      dots == {i \in 1 .. Len(body) : body[i] = "."}
      dot == CHOOSE i \in dots : TRUE
      ip == IF dots = {} THEN body ELSE SubSeq(body, 1, dot - 1)
      fp == IF dots = {} THEN <<>> ELSE SubSeq(body, dot + 1, Len(body))
  IN IF Cardinality(dots) > 1 THEN [v |-> FloatV(0, 1), ok |-> FALSE]
     ELSE IF ~IsDigits(ip) \/ ~IsDigits(fp) \/ Len(ip) + Len(fp) = 0
     THEN [v |-> FloatV(0, 1), ok |-> FALSE]
     ELSE LET m == DigitsVal(ip) * Pow10(Len(fp)) + DigitsVal(fp) IN
       [v |-> FloatV(IF neg THEN -m ELSE m, Pow10(Len(fp))), ok |-> TRUE]

\* ---------------------------------------------------------------------------
\* AST nodes
\* ---------------------------------------------------------------------------

NoExpr == [k |-> "none"]
LiteralExpr(v) == [k |-> "Literal", v |-> v]
VariableExpr(name) == [k |-> "Variable", name |-> name]
MemberAccessExpr(left, key) == [k |-> "MemberAccess", left |-> left, key |-> key]
IndexExpr(left, index) == [k |-> "Index", left |-> left, index |-> index]
MethodCallExpr(left, method, args) == [k |-> "MethodCall", left |-> left, method |-> method, args |-> args]
CallExpr(name, args) == [k |-> "Call", name |-> name, args |-> args]
UnaryExpr(op, right) == [k |-> "Unary", op |-> op, right |-> right]
InfixExpr(left, op, right) == [k |-> "Infix", left |-> left, op |-> op, right |-> right]
TernaryExpr(cond, then, else) == [k |-> "Ternary", cond |-> cond, then |-> then, else |-> else]

\* composite host values: map[K]any with K string or int, and []any
MapV(kt, m) == [t |-> "map", kt |-> kt, m |-> m]
SliceV(xs) == [t |-> "slice", v |-> xs]
\* a Go array, such as [2]int
ArrayV(xs) == [t |-> "array", v |-> xs]

\* a struct, or a pointer to one when ptr: its fields in declaration order
\* and the method set of its type and of the pointer to it
StructV(ptr, fields, methods) == [t |-> "struct", ptr |-> ptr, fields |-> fields, methods |-> methods]
\* a field with its okra and json tags
Field(name, okra, json, v) == [name |-> name, okra |-> okra, json |-> json, v |-> v]
\* a method: pointer receiver or not, the kinds of its parameters, variadic
\* or not, and what a call does: "void", "value" and "valnil" return v (the
\* last with a nil error), "arg" returns its first argument, "err" returns
\* (nil, error), "panic" panics
Method(ptrRecv, in, variadic, does, v) ==
  [ptrRecv |-> ptrRecv, in |-> in, variadic |-> variadic, does |-> does, v |-> v]
\* exported names start with an upper-case letter
IsExported(name) == name # <<>> /\ name[1] \in UpperLetters

\* an integer of a Go kind other than int64 (int, uint, ...)
IntK(kind, i) == [t |-> kind, v |-> i]
IntKinds == {"int", "int64", "uint"}

\* strings.ToLower, on the letters of the model
LowerOf(c) == CASE c = "E" -> "e" [] c = "L" -> "l" [] c = "N" -> "n" [] OTHER -> c
ToLower(s) == [i \in 1 .. Len(s) |-> LowerOf(s[i])]

\* ---------------------------------------------------------------------------
\* Coercions
\* ---------------------------------------------------------------------------

\* toInt64
toInt64(v) ==
  IF v.t \in IntKinds THEN [v |-> v.v, ok |-> TRUE] ELSE [v |-> 0, ok |-> FALSE]

\* toFloat; the value is a float of the model
toFloat(v) ==
  IF toInt64(v).ok THEN [v |-> FloatV(toInt64(v).v, 1), ok |-> TRUE]
  ELSE IF v.t = "float" THEN [v |-> v, ok |-> TRUE]
  ELSE IF v.t = "string" THEN ParseFloat(v.v)
  ELSE [v |-> FloatV(0, 1), ok |-> FALSE]

FloatIsZero(f) == ~IsNaN(f) /\ f.n = 0

\* toBool
toBool(v) ==
  IF v = Nil THEN FALSE
  ELSE IF v.t = "bool" THEN v.v
  ELSE IF v.t = "string" THEN v.v # <<>> /\ v.v # <<"f", "a", "l", "s", "e">>
  ELSE ~FloatIsZero(toFloat(v).v)

\* float64 arithmetic and comparison on the rationals of the model
FAdd(a, b) == IF IsNaN(a) \/ IsNaN(b) THEN NaN ELSE FloatV(a.n * b.d + b.n * a.d, a.d * b.d)
FSub(a, b) == IF IsNaN(a) \/ IsNaN(b) THEN NaN ELSE FloatV(a.n * b.d - b.n * a.d, a.d * b.d)
FMul(a, b) == IF IsNaN(a) \/ IsNaN(b) THEN NaN ELSE FloatV(a.n * b.n, a.d * b.d)
FDiv(a, b) ==
  IF IsNaN(a) \/ IsNaN(b) THEN NaN
  ELSE FloatV((IF b.n < 0 THEN -1 ELSE 1) * a.n * b.d, a.d * Abs(b.n))
FEq(a, b) == ~IsNaN(a) /\ ~IsNaN(b) /\ a.n * b.d = b.n * a.d
FLt(a, b) == ~IsNaN(a) /\ ~IsNaN(b) /\ a.n * b.d < b.n * a.d

\* Go's integer division and remainder truncate toward zero
QuoT(a, b) == (IF (a < 0) # (b < 0) THEN -1 ELSE 1) * (Abs(a) \div Abs(b))
RemT(a, b) == a - b * QuoT(a, b)

\* reflect.DeepEqual on the values of the model: same dynamic type and equal
\* contents; a NaN is not equal to itself
DeepEqual(l, r) == IF l.t = "float" /\ IsNaN(l) THEN FALSE ELSE l = r

\* ---------------------------------------------------------------------------
\* fmt.Sprint of a value
\* ---------------------------------------------------------------------------

RECURSIVE NatToStr(_)
NatToStr(n) ==
  IF n < 10 THEN <<ToString(n)>> ELSE Append(NatToStr(n \div 10), ToString(n % 10))

IntToStr(i) == IF i < 0 THEN <<"-">> \o NatToStr(-i) ELSE NatToStr(i)

\* the digits of the fraction r/d (0 <= r < d) when the expansion terminates
RECURSIVE FracDigits(_, _)
FracDigits(r, d) ==
  IF r = 0 THEN <<>> ELSE <<ToString((10 * r) \div d)>> \o FracDigits((10 * r) % d, d)

\* %v of a float64 whose decimal expansion is short: 2.5, 10, -0.25
FloatToStr(f) ==
  IF IsNaN(f) THEN <<"N", "a", "N">>
  ELSE LET a == Abs(f.n)
           ip == NatToStr(a \div f.d)
           fp == FracDigits(a % f.d, f.d)
       IN (IF f.n < 0 THEN <<"-">> ELSE <<>>) \o ip \o (IF fp = <<>> THEN <<>> ELSE <<".">> \o fp)

RECURSIVE Sprint(_), SprintSeq(_)
\* the elements of a slice, separated by spaces
SprintSeq(xs) ==
  IF xs = <<>> THEN <<>>
  ELSE IF Len(xs) = 1 THEN Sprint(xs[1])
  ELSE Sprint(xs[1]) \o <<" ">> \o SprintSeq(Tail(xs))

\* fmt.Sprint(v); the maps of the model have at most one key
Sprint(v) ==
  CASE v = Nil -> <<"<", "n", "i", "l", ">">>
    [] v.t = "bool" -> IF v.v THEN <<"t", "r", "u", "e">> ELSE <<"f", "a", "l", "s", "e">>
    [] v.t \in IntKinds -> IntToStr(v.v)
    [] v.t = "float" -> FloatToStr(v)
    [] v.t = "string" -> v.v
    [] v.t \in {"slice", "array"} -> <<"[">> \o SprintSeq(v.v) \o <<"]">>
    [] v.t = "struct" ->
         (IF v.ptr THEN <<"&">> ELSE <<>>) \o <<"{">>
         \o SprintSeq([i \in 1 .. Len(v.fields) |-> v.fields[i].v]) \o <<"}">>
    [] v.t = "map" ->
         <<"m", "a", "p", "[">>
         \o (IF DOMAIN v.m = {} THEN <<>>
             ELSE LET k == CHOOSE k \in DOMAIN v.m : TRUE IN
               (IF v.kt = "string" THEN k ELSE IntToStr(k)) \o <<":">> \o Sprint(v.m[k]))
         \o <<"]">>

\* ---------------------------------------------------------------------------
\* Operators on values
\* ---------------------------------------------------------------------------

\* the (value, error) pair a Go function returns; pn marks a panic that is
\* unwinding the stack instead of a returned error
R(v, err) == [v |-> v, err |-> err, pn |-> FALSE]
Panic(msg) == [v |-> Nil, err |-> msg, pn |-> TRUE]
Failed(r) == r.pn \/ r.err # NoErr

\* bitwise operations on two's-complement integers of unbounded width
RECURSIVE BitAnd(_, _)
BitAnd(a, b) ==
  IF a = 0 \/ b = 0 THEN 0
  ELSE IF a = -1 THEN b
  ELSE IF b = -1 THEN a
  ELSE 2 * BitAnd(a \div 2, b \div 2) + (a % 2) * (b % 2)
BitOr(a, b) == -1 - BitAnd(-1 - a, -1 - b)
BitXor(a, b) == BitOr(a, b) - BitAnd(a, b)

RECURSIVE Pow2(_)
Pow2(k) == IF k = 0 THEN 1 ELSE 2 * Pow2(k - 1)

\* evalBitwise
evalBitwise(lv, rv, op) ==
  LET li == toInt64(lv)
      ri == toInt64(rv)
  IN IF ~li.ok \/ ~ri.ok THEN R(Nil, "invalid bitwise op")
     ELSE CASE op = <<"&">> -> R(IntV(BitAnd(li.v, ri.v)), NoErr)
            [] op = <<"|">> -> R(IntV(BitOr(li.v, ri.v)), NoErr)
            [] op = <<"^">> -> R(IntV(BitXor(li.v, ri.v)), NoErr)
            [] op = <<"<", "<">> ->
                 IF ri.v < 0 THEN R(Nil, "negative shift count")
                 ELSE IF ri.v >= 64 THEN R(IntV(0), NoErr)
                 ELSE R(IntV(li.v * Pow2(ri.v)), NoErr)
            [] op = <<">", ">">> ->
                 IF ri.v < 0 THEN R(Nil, "negative shift count")
                 ELSE IF ri.v >= 64 THEN R(IntV(IF li.v < 0 THEN -1 ELSE 0), NoErr)
                 ELSE R(IntV(li.v \div Pow2(ri.v)), NoErr)
            [] OTHER -> R(Nil, "unknown bitwise operator")

\* the float path of evalMath (lines 604-619)
evalMathFloat(lv, rv, op) ==
  LET lf == toFloat(lv).v
      rf == toFloat(rv).v
  IN CASE op = "+" -> R(FAdd(lf, rf), NoErr)
       [] op = "-" -> R(FSub(lf, rf), NoErr)
       [] op = "*" -> R(FMul(lf, rf), NoErr)
       [] op = "/" -> IF FloatIsZero(rf) THEN R(Nil, "div by zero") ELSE R(FDiv(lf, rf), NoErr)
       [] OTHER -> R(Nil, NoErr)

\* evalMath
evalMath(lv, rv, op) ==
  LET li == toInt64(lv)
      ri == toInt64(rv)
  IN IF li.ok /\ ri.ok /\ op \in {"+", "-", "*", "/", "%"}
     THEN CASE op = "+" -> R(IntV(li.v + ri.v), NoErr)
            [] op = "-" -> R(IntV(li.v - ri.v), NoErr)
            [] op = "*" -> R(IntV(li.v * ri.v), NoErr)
            [] op = "/" -> IF ri.v = 0 THEN R(Nil, "div by zero") ELSE R(IntV(QuoT(li.v, ri.v)), NoErr)
            [] op = "%" -> IF ri.v = 0 THEN R(Nil, "div by zero") ELSE R(IntV(RemT(li.v, ri.v)), NoErr)
     ELSE evalMathFloat(lv, rv, op)

\* compare
compare(lv, rv, op) ==
  LET lf == toFloat(lv)
      rf == toFloat(rv)
  IN IF ~lf.ok \/ ~rf.ok THEN R(BoolV(FALSE), "invalid comparison")
     ELSE CASE op = <<">">> -> R(BoolV(FLt(rf.v, lf.v)), NoErr)
            [] op = <<"<">> -> R(BoolV(FLt(lf.v, rf.v)), NoErr)
            [] op = <<">", "=">> -> R(BoolV(FLt(rf.v, lf.v) \/ FEq(lf.v, rf.v)), NoErr)
            [] op = <<"<", "=">> -> R(BoolV(FLt(lf.v, rf.v) \/ FEq(lf.v, rf.v)), NoErr)
            [] OTHER -> R(BoolV(FALSE), NoErr)

\* the == case of InfixExpr.Eval
evalEq(lv, rv) ==
  IF DeepEqual(lv, rv) THEN R(BoolV(TRUE), NoErr)
  ELSE IF toFloat(lv).ok /\ toFloat(rv).ok THEN R(BoolV(FEq(toFloat(lv).v, toFloat(rv).v)), NoErr)
  ELSE R(BoolV(FALSE), NoErr)

\* mutant: != compares numerically without the DeepEqual test
evalNeNoDeepEqual(lv, rv) ==
  IF toFloat(lv).ok /\ toFloat(rv).ok THEN R(BoolV(~FEq(toFloat(lv).v, toFloat(rv).v)), NoErr)
  ELSE R(BoolV(TRUE), NoErr)

\* the != case of InfixExpr.Eval
evalNe(lv, rv) ==
  IF DeepEqual(lv, rv) THEN R(BoolV(FALSE), NoErr)
  ELSE IF toFloat(lv).ok /\ toFloat(rv).ok THEN R(BoolV(~FEq(toFloat(lv).v, toFloat(rv).v)), NoErr)
  ELSE R(BoolV(TRUE), NoErr)

\* the + case of InfixExpr.Eval
evalPlus(lv, rv) ==
  IF lv.t = "string" THEN R(StrV(lv.v \o Sprint(rv)), NoErr) ELSE evalMath(lv, rv, "+")

\* the operator switch of InfixExpr.Eval (lines 387-426)
evalInfixOp(lv, rv, op) ==
  CASE op = <<"=", "=">> -> evalEq(lv, rv)
    [] op = <<"!", "=">> -> evalNe(lv, rv)
    [] op = <<"+">> -> evalPlus(lv, rv)
    [] op \in {<<"-">>, <<"*">>, <<"/">>, <<"%">>} -> evalMath(lv, rv, op[1])
    [] op \in {<<">">>, <<"<">>, <<">", "=">>, <<"<", "=">>} -> compare(lv, rv, op)
    [] op \in {<<"&">>, <<"|">>, <<"^">>, <<"<", "<">>, <<">", ">">>} -> evalBitwise(lv, rv, op)
    [] OTHER -> R(Nil, NoErr)

\* the operator switch of UnaryExpr.Eval
evalUnaryOp(rv, op) ==
  CASE op = <<"!">> -> R(BoolV(~toBool(rv)), NoErr)
    [] op = <<"-">> ->
         IF toInt64(rv).ok THEN R(IntV(-toInt64(rv).v), NoErr)
         ELSE IF toFloat(rv).ok THEN R(FSub(FloatV(0, 1), toFloat(rv).v), NoErr)
         ELSE R(Nil, "invalid unary -")
    [] op = <<"~">> ->
         IF toInt64(rv).ok THEN R(IntV(-1 - toInt64(rv).v), NoErr)
         ELSE R(Nil, "invalid unary ~")
    [] OTHER -> R(Nil, "unknown unary operator")

\* the tag up to its first comma
TagName(tag) ==
  IF \E i \in 1 .. Len(tag) : tag[i] = ","
  THEN SubSeq(tag, 1, (CHOOSE i \in 1 .. Len(tag) : tag[i] = "," /\ \A j \in 1 .. (i - 1) : tag[j] # ",") - 1)
  ELSE tag

\* mutant: the declared name of a field tagged "-" is not entered
fieldNamesSkipIgnored(f) ==
  LET tag == IF f.okra # <<>> THEN f.okra ELSE f.json IN
  IF tag = <<"-">> THEN {}
  ELSE IF tag # <<>> THEN {f.name, TagName(tag)}
  ELSE {f.name}

\* the names the loop of getStructMeta enters for one field (lines 82-92)
fieldNames(f) ==
  LET tag == IF f.okra # <<>> THEN f.okra ELSE f.json IN
  IF tag # <<>> /\ tag # <<"-">> THEN {f.name, TagName(tag)} ELSE {f.name}

\* getStructMeta(t).fields: name -> index; a later field replaces the entry
\* of an earlier one
getStructMeta(fields) ==
  LET names == UNION {fieldNames(fields[i]) : i \in 1 .. Len(fields)} IN
  [n \in names |-> CHOOSE i \in 1 .. Len(fields) :
     /\ n \in fieldNames(fields[i])
     /\ \A j \in (i + 1) .. Len(fields) : n \notin fieldNames(fields[j])]

\* the result of mv.Call(in) as callReflectMethod and getMember read it
callMethod(m, in) ==
  CASE m.does = "void" -> [n |-> 0, v |-> Nil, err |-> NoErr, pn |-> FALSE]
    [] m.does = "value" -> [n |-> 1, v |-> m.v, err |-> NoErr, pn |-> FALSE]
    [] m.does = "arg" -> [n |-> 1, v |-> in[1], err |-> NoErr, pn |-> FALSE]
    [] m.does = "valnil" -> [n |-> 2, v |-> m.v, err |-> NoErr, pn |-> FALSE]
    [] m.does = "err" -> [n |-> 2, v |-> Nil, err |-> "method error", pn |-> FALSE]
    [] m.does = "panic" -> [n |-> 1, v |-> Nil, err |-> "method panic", pn |-> TRUE]

\* getMember on a struct (lines 489-503): a field by name or tag, else a
\* method without parameters that returns something, called as a getter
getMemberStruct(obj, key) ==
  LET meta == getStructMeta(obj.fields) IN
  IF key \in DOMAIN meta
  THEN (IF IsExported(obj.fields[meta[key]].name) THEN R(obj.fields[meta[key]].v, NoErr)
        ELSE Panic("reflect: unexported field"))
  ELSE IF key \in DOMAIN obj.methods /\ IsExported(key)
          /\ (~obj.methods[key].ptrRecv \/ obj.ptr)
          /\ Len(obj.methods[key].in) = 0
          /\ obj.methods[key].does # "void"
  THEN LET o == callMethod(obj.methods[key], <<>>) IN
       IF o.pn THEN Panic(o.err) ELSE R(o.v, NoErr)
  ELSE R(Nil, NoErr)

\* getMember
getMember(obj, key) ==
  IF obj = Nil THEN R(Nil, NoErr)
  ELSE CASE obj.t = "map" ->
              IF obj.kt = "string"
              THEN (IF key \in DOMAIN obj.m THEN R(obj.m[key], NoErr) ELSE R(Nil, NoErr))
              ELSE (IF ~ParseInt(key).ok THEN R(Nil, NoErr)
                    ELSE IF obj.kt = "bool" THEN Panic("reflect: Value.Convert")
                    ELSE IF ParseInt(key).v \in DOMAIN obj.m THEN R(obj.m[ParseInt(key).v], NoErr)
                    ELSE R(Nil, NoErr))
         [] obj.t \in {"slice", "array"} ->
              LET idx == ParseInt(key) IN
              IF ~idx.ok \/ idx.v < 0 \/ idx.v >= Len(obj.v) THEN R(Nil, NoErr)
              ELSE R(obj.v[idx.v + 1], NoErr)
         [] obj.t = "struct" -> getMemberStruct(obj, key)
         [] OTHER -> R(Nil, NoErr)

\* the type switch of IndexExpr.Eval (lines 161-217), for maps and slices
indexValue(obj, idx) ==
  CASE obj.t \in {"slice", "array"} ->
         LET i == toInt64(idx) IN
         IF ~i.ok THEN R(Nil, NoErr)
         ELSE IF i.v < 0 \/ i.v >= Len(obj.v) THEN R(Nil, NoErr)
         ELSE R(obj.v[i.v + 1], NoErr)
    [] obj.t = "map" ->
         LET kv == IF obj.kt = "string"
                   THEN (IF idx = Nil THEN [ok |-> TRUE, k |-> <<>>]
                         ELSE IF idx.t = "string" THEN [ok |-> TRUE, k |-> idx.v]
                         ELSE IF idx.t \in IntKinds THEN [ok |-> TRUE, k |-> <<"#", ToString(idx.v)>>]
                         ELSE [ok |-> FALSE, k |-> <<>>])
                   ELSE IF obj.kt = "bool"
                   THEN (IF idx = Nil THEN [ok |-> TRUE, k |-> FALSE]
                         ELSE IF idx.t = "bool" THEN [ok |-> TRUE, k |-> idx.v]
                         ELSE [ok |-> FALSE, k |-> FALSE])
                   ELSE (IF idx = Nil THEN [ok |-> TRUE, k |-> 0]
                         ELSE IF idx.t \in IntKinds THEN [ok |-> TRUE, k |-> idx.v]
                         ELSE IF idx.t = "float" /\ ~IsNaN(idx)
                         THEN [ok |-> TRUE, k |-> QuoT(idx.n, idx.d)]
                         ELSE IF idx.t = "string" /\ ParseInt(idx.v).ok
                         THEN [ok |-> TRUE, k |-> ParseInt(idx.v).v]
                         ELSE [ok |-> FALSE, k |-> 0])
         IN IF ~kv.ok THEN R(Nil, NoErr)
            ELSE IF kv.k \in DOMAIN obj.m THEN R(obj.m[kv.k], NoErr)
            ELSE R(Nil, NoErr)
    [] OTHER -> R(Nil, NoErr)

\* v.Type().ConvertibleTo(t) and v.Convert(t) for a parameter of kind t
ConvertArg(v, t) ==
  CASE t = "any" -> [ok |-> TRUE, v |-> v]
    [] t = "float64" /\ v.t \in IntKinds \cup {"float"} -> [ok |-> TRUE, v |-> toFloat(v).v]
    [] t = "int64" /\ v.t \in IntKinds -> [ok |-> TRUE, v |-> IntV(v.v)]
    [] t = "int64" /\ v.t = "float" /\ ~IsNaN(v) -> [ok |-> TRUE, v |-> IntV(QuoT(v.n, v.d))]
    [] t = "string" /\ v.t = "string" -> [ok |-> TRUE, v |-> v]
    [] OTHER -> [ok |-> FALSE, v |-> Nil]

\* reflect.Zero(t).Interface() for a parameter of kind t
ZeroOf(t) ==
  CASE t = "float64" -> FloatV(0, 1)
    [] t = "int64" -> IntV(0)
    [] t = "string" -> StrV(<<>>)
    [] OTHER -> Nil

\* the kind of parameter i of method m (lines 536-541)
ParamKind(m, i) ==
  IF m.variadic /\ i >= Len(m.in) THEN m.in[Len(m.in)] ELSE m.in[i]

\* callReflectMethod: the values of the model other than structs have no
\* methods, so MethodByName finds nothing on them
callReflectMethod(obj, name, args) ==
  IF obj.t # "struct" \/ name \notin DOMAIN obj.methods \/ ~IsExported(name)
  THEN R(Nil, "method not found")
  ELSE LET m == obj.methods[name]
           numIn == Len(m.in)
       IN IF m.variadic /\ Len(args) < numIn - 1 THEN R(Nil, "expected at least n args")
          ELSE IF ~m.variadic /\ Len(args) # numIn THEN R(Nil, "expected n args")
          ELSE IF \E i \in 1 .. Len(args) : args[i] # Nil /\ ~ConvertArg(args[i], ParamKind(m, i)).ok
          THEN R(Nil, "cannot use arg")
          ELSE LET in == [i \in 1 .. Len(args) |->
                            IF args[i] = Nil THEN ZeroOf(ParamKind(m, i))
                            ELSE ConvertArg(args[i], ParamKind(m, i)).v]
                   o == callMethod(m, in)
               IN IF o.pn THEN R(Nil, "panic calling method")
                  ELSE IF o.n = 0 THEN R(Nil, NoErr)
                  ELSE IF o.n > 1 /\ o.err # NoErr THEN R(Nil, o.err)
                  ELSE R(o.v, NoErr)

\* ---------------------------------------------------------------------------
\* Functions of the registry
\* ---------------------------------------------------------------------------

\* number of elements of a sized value (reflect.Value.Len)
sizeOf(v) ==
  CASE v.t \in {"slice", "array"} -> Len(v.v)
    [] v.t = "string" -> Len(v.v)
    [] v.t = "map" -> Cardinality(DOMAIN v.m)
    [] OTHER -> 0

\* the built-in len of defaultFuncs
builtinLen(args) ==
  IF Len(args) = 0 THEN R(IntK("int", 0), NoErr)
  ELSE IF args[1].t \in {"slice", "string", "map"} THEN R(IntV(sizeOf(args[1])), NoErr)
  ELSE R(IntV(0), NoErr)

\* a CustomFunc is named by an identifier: the two built-ins, and host
\* functions that return a value, return an error, or panic
HostFuncs == {"one", "alt", "fail", "boom"}

\* fn(args)
ApplyFn(fn, args) ==
  CASE fn = "len" -> builtinLen(args)
    [] fn = "now" -> R(IntV(1000), NoErr)
    [] fn = "one" -> R(IntV(1), NoErr)
    [] fn = "alt" -> R(IntV(123), NoErr)
    [] fn = "fail" -> R(Nil, "host error")
    [] fn = "boom" -> Panic("host panic")

\* the map literal of defaultFuncs
defaultFuncsMap == (<<"l", "e", "n">> :> "len") @@ (<<"n", "o", "w">> :> "now")

\* ---------------------------------------------------------------------------
\* Evaluation of the AST
\* ---------------------------------------------------------------------------

\* Context{Data, Fns}
Context(data, fns) == [Data |-> data, Fns |-> fns]

\* a result together with ev, the set of the nodes (named by their path from
\* the root) whose Eval has been entered
With(r, ev) == [v |-> r.v, err |-> r.err, pn |-> r.pn, ev |-> ev]
\* return nil, err
Fail(r, ev) == [v |-> Nil, err |-> r.err, pn |-> r.pn, ev |-> ev]

\* mutant: the registry is not consulted, calls go to the root data
registryHasNever(fns, name) == FALSE

\* a Call finds its name in the registry (line 275)
registryHas(fns, name) == ToLower(name) \in DOMAIN fns

\* mutant: the nil test on the receiver is missing
receiverNeverNil(v) == FALSE

\* the test `val == nil` on the receiver of a member, index or method node
receiverIsNil(v) == v = Nil

\* mutant: && and || always evaluate their right operand
shortCircuitsNever(op, lv) == FALSE

\* whether the left value alone decides && or || (lines 363-376)
shortCircuits(op, lv) ==
  \/ op = <<"&", "&">> /\ ~toBool(lv)
  \/ op = <<"|", "|">> /\ toBool(lv)

\* mutant: the branches are swapped
ternaryBranchSwapped(cond) == IF toBool(cond) THEN "else" ELSE "then"

\* the branch TernaryExpr.Eval evaluates for a condition value
ternaryBranch(cond) == IF toBool(cond) THEN "then" ELSE "else"

RECURSIVE Eval(_, _, _), EvalArgs(_, _, _, _, _, _)

\* the loop that evaluates the arguments of a call, from argument i on
EvalArgs(args, ctx, path, i, acc, ev) ==
  IF i > Len(args) THEN [vs |-> acc, err |-> NoErr, pn |-> FALSE, ev |-> ev]
  ELSE LET a == Eval(args[i], ctx, Append(path, "arg" \o ToString(i))) IN
    IF Failed(a) THEN [vs |-> acc, err |-> a.err, pn |-> a.pn, ev |-> ev \cup a.ev]
    ELSE EvalArgs(args, ctx, path, i + 1, Append(acc, a.v), ev \cup a.ev)

\* Expr.Eval, by node kind
Eval(e, ctx, path) ==
  CASE e.k = "Literal" -> With(R(e.v, NoErr), {path})
    [] e.k = "Variable" -> With(getMember(ctx.Data, e.name), {path})
    [] e.k = "MemberAccess" ->
         LET l == Eval(e.left, ctx, Append(path, "left")) IN
         IF Failed(l) \/ receiverIsNil(l.v) THEN Fail(l, {path} \cup l.ev)
         ELSE With(getMember(l.v, e.key), {path} \cup l.ev)
    [] e.k = "Index" ->
         LET l == Eval(e.left, ctx, Append(path, "left")) IN
         IF Failed(l) \/ receiverIsNil(l.v) THEN Fail(l, {path} \cup l.ev)
         ELSE LET ix == Eval(e.index, ctx, Append(path, "index")) IN
           IF Failed(ix) THEN Fail(ix, {path} \cup l.ev \cup ix.ev)
           ELSE With(indexValue(l.v, ix.v), {path} \cup l.ev \cup ix.ev)
    [] e.k = "MethodCall" ->
         LET l == Eval(e.left, ctx, Append(path, "left")) IN
         IF Failed(l) \/ receiverIsNil(l.v) THEN Fail(l, {path} \cup l.ev)
         ELSE IF e.method = <<"l", "e", "n">> /\ Len(e.args) = 0
                 /\ l.v.t \in {"slice", "array", "map", "string"}
         THEN With(R(IntV(sizeOf(l.v)), NoErr), {path} \cup l.ev)
         ELSE LET as == EvalArgs(e.args, ctx, path, 1, <<>>, {path} \cup l.ev) IN
           IF Failed(as) THEN Fail(as, as.ev)
           ELSE With(callReflectMethod(l.v, e.method, as.vs), as.ev)
    [] e.k = "Call" ->
         IF registryHas(ctx.Fns, e.name)
         THEN LET as == EvalArgs(e.args, ctx, path, 1, <<>>, {path}) IN
           IF Failed(as) THEN Fail(as, as.ev)
           ELSE With(ApplyFn(ctx.Fns[ToLower(e.name)], as.vs), as.ev)
         ELSE IF ctx.Data # Nil
         THEN LET as == EvalArgs(e.args, ctx, path, 1, <<>>, {path}) IN
           IF Failed(as) THEN Fail(as, as.ev)
           ELSE LET m == callReflectMethod(ctx.Data, e.name, as.vs) IN
             IF m.err = NoErr THEN With(m, as.ev)
             ELSE With(R(Nil, "function or method not found"), as.ev)
         ELSE With(R(Nil, "function or method not found"), {path})
    [] e.k = "Unary" ->
         LET r == Eval(e.right, ctx, Append(path, "right")) IN
         IF Failed(r) THEN Fail(r, {path} \cup r.ev)
         ELSE With(evalUnaryOp(r.v, e.op), {path} \cup r.ev)
    [] e.k = "Infix" ->
         LET l == Eval(e.left, ctx, Append(path, "left")) IN
         IF Failed(l) THEN Fail(l, {path} \cup l.ev)
         ELSE IF shortCircuits(e.op, l.v)
         THEN With(R(BoolV(e.op = <<"|", "|">>), NoErr), {path} \cup l.ev)
         ELSE LET r == Eval(e.right, ctx, Append(path, "right")) IN
           IF Failed(r) THEN Fail(r, {path} \cup l.ev \cup r.ev)
           ELSE IF e.op \in {<<"&", "&">>, <<"|", "|">>}
           THEN With(R(BoolV(toBool(r.v)), NoErr), {path} \cup l.ev \cup r.ev)
           ELSE With(evalInfixOp(l.v, r.v, e.op), {path} \cup l.ev \cup r.ev)
    [] e.k = "Ternary" ->
         LET c == Eval(e.cond, ctx, Append(path, "cond")) IN
         IF Failed(c) THEN Fail(c, {path} \cup c.ev)
         ELSE IF ternaryBranch(c.v) = "then"
         THEN LET b == Eval(e.then, ctx, Append(path, "then")) IN With(b, {path} \cup c.ev \cup b.ev)
         ELSE LET b == Eval(e.else, ctx, Append(path, "else")) IN With(b, {path} \cup c.ev \cup b.ev)

\* ---------------------------------------------------------------------------
\* State
\* ---------------------------------------------------------------------------

VARIABLES
  pc,      \* "idle", "parsing" or "done": where the current API call is
  api,     \* the entry point called: "ParseExpr", "Eval", "NewEngine" or "RegisterFunc"
  recv,    \* the engine the call is made on
  arg,     \* the further argument of the call: fn of RegisterFunc, T of EvalTo
  orig,    \* the AST of the first parse while its String() is parsed again
  thr,     \* the calls in flight on engine A, one per goroutine
  text,    \* the expression text of the call
  data,    \* the root data of the call
  p,       \* the parser struct: lex.pos, curr, next, lexErr
  stack,   \* the activations of parse, nud, led and parseArgs that wait for a call to return
  ctl,     \* the call being entered or the value being returned
  ast,     \* the AST handed to evaluation (NoExpr: none)
  out,     \* the result of the call: value, error and the nodes evaluated
  heap,    \* the function maps ever allocated, by address
  funcs    \* Engine.funcs of every engine: the address stored, 0 when empty

vars == <<pc, api, recv, arg, orig, thr, text, data, p, stack, ctl, ast, out, heap, funcs>>
parserVars == <<text, p, stack, ctl>>
registryVars == <<heap, funcs>>
auxVars == <<arg, orig, thr>>

Engines == {"A", "B"}

\* the goroutines that call into engine A at the same time
Threads == {"t1", "t2"}

\* a goroutine between calls: op is the call it is in, curr the address of
\* the map it loaded, res the result of its last call
IdleThread == [pc |-> "idle", op |-> "none", name |-> <<>>, fn |-> "none",
               e |-> NoExpr, curr |-> 0, res |-> [v |-> Nil, err |-> NoErr]]

\* ---------------------------------------------------------------------------
\* Parser
\* ---------------------------------------------------------------------------

\* &parser{lex: l} with l = &lexer{s: text}
NewParser == [pos |-> 0, curr |-> ZeroTok, next |-> ZeroTok, lexErr |-> NoErr]

\* (p *parser) advance
advance(s, q) ==
  IF q.lexErr # NoErr
  THEN [q EXCEPT !.curr = q.next, !.next = Tok("tEOF", <<>>, q.pos)]
  ELSE LET n == nextToken(s, q.pos) IN
    IF n.err # NoErr
    THEN [q EXCEPT !.curr = q.next, !.lexErr = n.err, !.pos = n.pos,
                   !.next = Tok("tEOF", <<>>, n.pos)]
    ELSE [q EXCEPT !.curr = q.next, !.next = n.tok, !.pos = n.pos]

\* mutant: every operator binds alike
lbpFlat(t) == IF t.typ = "tOp" THEN 40 ELSE 0

\* lbp
lbp(t) ==
  IF t.typ = "tOp" THEN
    CASE t.val \in {<<".">>, <<"[">>} -> 100
      [] t.val \in {<<"*">>, <<"/">>, <<"%">>, <<"<", "<">>, <<">", ">">>, <<"&">>} -> 50
      [] t.val \in {<<"+">>, <<"-">>, <<"|">>, <<"^">>} -> 40
      [] t.val \in {<<"<">>, <<">">>, <<"<", "=">>, <<">", "=">>} -> 35
      [] t.val \in {<<"=", "=">>, <<"!", "=">>} -> 30
      [] t.val = <<"&", "&">> -> 20
      [] t.val = <<"|", "|">> -> 10
      [] t.val = <<"?">> -> 5
      [] OTHER -> 0
  ELSE 0

\* mutant: the guard is off by one
depthExceededLate(depth) == depth > MaxStackDepth + 1

\* the guard at the head of parse
depthExceeded(depth) == depth > MaxStackDepth

\* the literal a number token denotes in nud
numberLiteral(val) ==
  IF \E i \in 1 .. Len(val) : val[i] = "."
  THEN LiteralExpr(ParseFloat(val).v)
  ELSE LiteralExpr(IntV(ParseInt(val).v))

\* control: a call of parse, the loop head of parse or parseArgs, or a return
CallParse(rbp, depth) == [op |-> "parse", rbp |-> rbp, depth |-> depth]
Loop(left) == [op |-> "loop", left |-> left]
Args(depth, args) == [op |-> "args", depth |-> depth, args |-> args]
Ret(e, err) == [op |-> "ret", e |-> e, err |-> err]
RetArgs(args, err) == [op |-> "retargs", args |-> args, err |-> err]
Idle == [op |-> "idle"]

Top(st) == st[Len(st)]
Pop(st) == SubSeq(st, 1, Len(st) - 1)

\* a configuration of the parser after a step
M(q, st, c) == [p |-> q, stack |-> st, ctl |-> c]

\* nud or led returns (e, err) to the activation of parse on top of st:
\* parse returns the error, or goes to the head of its loop with left = e
ToParse(st, q, e, err) ==
  IF err # NoErr THEN M(q, Pop(st), Ret(NoExpr, err)) ELSE M(q, st, Loop(e))

\* (p *parser) nud, up to its return or its first nested call
nud(s, q, t, depth, st) ==
  CASE t.typ = "tNumber" -> ToParse(st, q, numberLiteral(t.val), NoErr)
    [] t.typ = "tString" -> ToParse(st, q, LiteralExpr(StrV(t.val)), NoErr)
    [] t.typ = "tIdent" ->
         IF t.val = <<"t", "r", "u", "e">> THEN ToParse(st, q, LiteralExpr(BoolV(TRUE)), NoErr)
         ELSE IF t.val = <<"f", "a", "l", "s", "e">> THEN ToParse(st, q, LiteralExpr(BoolV(FALSE)), NoErr)
         ELSE IF q.curr.typ = "tLParen"
         THEN M(advance(s, q), Append(st, [k |-> "call", name |-> t.val]), Args(depth, <<>>))
         ELSE ToParse(st, q, VariableExpr(t.val), NoErr)
    [] t.typ = "tLParen" -> M(q, Append(st, [k |-> "paren"]), CallParse(0, depth + 1))
    [] t.typ = "tOp" /\ t.val \in {<<"!">>, <<"-">>, <<"~">>} ->
         M(q, Append(st, [k |-> "unary", op |-> t.val]), CallParse(60, depth + 1))
    [] OTHER -> ToParse(st, q, NoExpr, "unexpected token")

\* (p *parser) led, up to its return or its first nested call
led(s, q, t, left, depth, st) ==
  CASE t.val = <<"?">> ->
         M(q, Append(st, [k |-> "ternThen", left |-> left, bp |-> lbp(t), depth |-> depth]),
           CallParse(0, depth + 1))
    [] t.val = <<"[">> -> M(q, Append(st, [k |-> "index", left |-> left]), CallParse(0, depth + 1))
    [] t.val = <<".">> ->
         IF q.curr.typ = "tOp" /\ q.curr.val = <<"[">>
         THEN M(advance(s, q), Append(st, [k |-> "index", left |-> left]), CallParse(0, depth + 1))
         ELSE LET member == q.curr.val
                  q1 == advance(s, q)
              IN IF q1.curr.typ = "tLParen"
                 THEN M(advance(s, q1), Append(st, [k |-> "method", left |-> left, method |-> member]),
                        Args(depth, <<>>))
                 ELSE ToParse(st, q1, MemberAccessExpr(left, member), NoErr)
    [] OTHER ->
         M(q, Append(st, [k |-> "infix", left |-> left, op |-> t.val]), CallParse(lbp(t), depth + 1))

\* (p *parser) parse, from its entry to the return of nud or to nud's first call
parseEnter(s, q, st, c) ==
  IF depthExceeded(c.depth) THEN M(q, st, Ret(NoExpr, "stack overflow"))
  ELSE IF q.lexErr # NoErr THEN M(q, st, Ret(NoExpr, q.lexErr))
  ELSE LET t == q.curr
           q1 == advance(s, q)
       IN IF q1.lexErr # NoErr THEN M(q1, st, Ret(NoExpr, q1.lexErr))
          ELSE nud(s, q1, t, c.depth, Append(st, [k |-> "parse", rbp |-> c.rbp, depth |-> c.depth]))

\* mutant: the loop of parse does not advance past the operator
parseLoopNoAdvance(s, q, st, c) ==
  LET f == Top(st) IN
  IF f.rbp < lbp(q.curr)
  THEN led(s, q, q.curr, c.left, f.depth, st)
  ELSE M(q, Pop(st), Ret(c.left, NoErr))

\* one iteration of the for loop of parse; the activation is on top of st
parseLoop(s, q, st, c) ==
  LET f == Top(st) IN
  IF f.rbp < lbp(q.curr)
  THEN LET t == q.curr
           q1 == advance(s, q)
       IN IF q1.lexErr # NoErr THEN M(q1, Pop(st), Ret(NoExpr, q1.lexErr))
          ELSE led(s, q1, t, c.left, f.depth, st)
  ELSE M(q, Pop(st), Ret(c.left, NoErr))

\* the head of the for loop of parseArgs and the code after the loop
parseArgs(s, q, st, c) ==
  IF q.curr.typ # "tRParen" /\ q.curr.typ # "tEOF"
  THEN M(q, Append(st, [k |-> "args", args |-> c.args, depth |-> c.depth]), CallParse(0, c.depth + 1))
  ELSE IF q.curr.typ # "tRParen" THEN M(q, st, RetArgs(<<>>, "missing ) in args"))
  ELSE M(advance(s, q), st, RetArgs(c.args, NoErr))

IsOp(t, val) == t.typ = "tOp" /\ t.val = val

\* a nested parse returns (c.e, c.err) to the activation f of nud, led or
\* parseArgs that called it; st is the stack below f
parseReturn(s, q, st, f, c) ==
  CASE f.k = "paren" ->
         IF c.err # NoErr THEN ToParse(st, q, NoExpr, c.err)
         ELSE IF q.curr.typ # "tRParen" THEN ToParse(st, q, NoExpr, "missing )")
         ELSE ToParse(st, advance(s, q), c.e, NoErr)
    [] f.k = "unary" ->
         IF c.err # NoErr THEN ToParse(st, q, NoExpr, c.err)
         ELSE ToParse(st, q, UnaryExpr(f.op, c.e), NoErr)
    [] f.k = "ternThen" ->
         IF c.err # NoErr THEN ToParse(st, q, NoExpr, c.err)
         ELSE IF ~IsOp(q.curr, <<":">>) THEN ToParse(st, q, NoExpr, "missing : in ternary expression")
         ELSE M(advance(s, q), Append(st, [k |-> "ternElse", left |-> f.left, then |-> c.e]),
                CallParse(f.bp - 1, f.depth + 1))
    [] f.k = "ternElse" ->
         IF c.err # NoErr THEN ToParse(st, q, NoExpr, c.err)
         ELSE ToParse(st, q, TernaryExpr(f.left, f.then, c.e), NoErr)
    [] f.k = "index" ->
         IF c.err # NoErr THEN ToParse(st, q, NoExpr, c.err)
         ELSE IF ~IsOp(q.curr, <<"]">>) THEN ToParse(st, q, NoExpr, "missing ] in index expression")
         ELSE ToParse(st, advance(s, q), IndexExpr(f.left, c.e), NoErr)
    [] f.k = "infix" -> ToParse(st, q, InfixExpr(f.left, f.op, c.e), c.err)
    [] f.k = "args" ->
         IF c.err # NoErr THEN M(q, st, RetArgs(<<>>, c.err))
         ELSE M(IF q.curr.typ = "tComma" THEN advance(s, q) ELSE q, st,
                Args(f.depth, Append(f.args, c.e)))

\* parseArgs returns (c.args, c.err) to the activation f of nud or led
argsReturn(q, st, f, c) ==
  IF c.err # NoErr THEN ToParse(st, q, NoExpr, c.err)
  ELSE IF f.k = "call" THEN ToParse(st, q, CallExpr(f.name, c.args), NoErr)
  ELSE ToParse(st, q, MethodCallExpr(f.left, f.method, c.args), NoErr)

\* ---------------------------------------------------------------------------
\* Engine and registry
\* ---------------------------------------------------------------------------

\* most function maps allocated in a run of the registry specification
MaxHeap == 4

\* mutant: the registry is one package-level variable shared by all engines
StoreGlobal(f, e, id) == [x \in DOMAIN f |-> id]

\* e.funcs.Store(m) for the map at address id
Store(f, e, id) == [f EXCEPT ![e] = id]

\* defaultFuncs(): a freshly allocated map; the result is the new heap and
\* the address of the map
defaultFuncs(h) == [heap |-> Append(h, defaultFuncsMap), id |-> Len(h) + 1]

\* (e *Engine) loadFuncs: the stored map, or, when Load() yields nil and the
\* type assertion panics, a new default map that is stored first
loadFuncs(h, f, e) ==
  IF f[e] = 0
  THEN LET d == defaultFuncs(h) IN [heap |-> d.heap, funcs |-> Store(f, e, d.id), id |-> d.id]
  ELSE [heap |-> h, funcs |-> f, id |-> f[e]]

\* the copy of curr with name bound to fn (lines 998-1002)
copyWith(curr, name, fn) ==
  [k \in DOMAIN curr \cup {name} |-> IF k = name THEN fn ELSE curr[k]]

\* mutant: the entry is written into the map that was loaded
publishInPlace(h, f, e, curr, name, fn) ==
  [heap |-> [h EXCEPT ![curr] = copyWith(h[curr], name, fn)], funcs |-> f]

\* lines 998-1003 of RegisterFunc: next is a new map, the copy of the map at
\* address curr with name bound to fn, and it is stored in e.funcs
publish(h, f, e, curr, name, fn) ==
  [heap |-> Append(h, copyWith(h[curr], name, fn)), funcs |-> Store(f, e, Len(h) + 1)]

\* mutant: the test for a nil function is missing
checkArgsNameOnly(name, fn) ==
  IF name = <<>> THEN "func name cannot be empty" ELSE NoErr

\* the two argument tests of RegisterFunc (lines 991-996)
checkArgs(name, fn) ==
  IF name = <<>> THEN "func name cannot be empty"
  ELSE IF fn = "nil" THEN "func cannot be nil"
  ELSE NoErr

\* (e *Engine) RegisterFunc: the error returned and the registry afterwards
registerFunc(h, f, e, name, fn) ==
  IF checkArgs(name, fn) # NoErr THEN [err |-> checkArgs(name, fn), heap |-> h, funcs |-> f]
  ELSE LET l == loadFuncs(h, f, e)
           n == publish(l.heap, l.funcs, e, l.id, name, fn)
       IN [err |-> NoErr, heap |-> n.heap, funcs |-> n.funcs]

\* mutant: the test for a trailing token is missing
trailingTokenIgnored(q) == FALSE

\* the trailing-token test after the top-level parse
trailingToken(q) == q.curr.typ # "tEOF"

\* the result of a call: value, error, the nodes evaluated, the AST, and
\* whether a panic left the call instead of a return
NoOut == [v |-> Nil, err |-> NoErr, ev |-> {}, ast |-> NoExpr, crashed |-> FALSE]

\* mutant: Eval has no deferred recover
recoveredNever(r) == [v |-> r.v, err |-> r.err, crashed |-> r.pn]

\* the deferred recover of Engine.Eval (lines 1008-1013)
recovered(r) ==
  IF r.pn THEN [v |-> Nil, err |-> "panic: " \o r.err, crashed |-> FALSE]
  ELSE [v |-> r.v, err |-> r.err, crashed |-> FALSE]

\* ast.Eval(Context{Data: data, Fns: fns}) under the deferred recover
evalTop(e, d, fns) ==
  LET r == Eval(e, Context(d, fns), <<>>)
      o == recovered(r)
  IN [v |-> o.v, err |-> o.err, ev |-> r.ev, ast |-> e, crashed |-> o.crashed]

\* ---------------------------------------------------------------------------
\* Actions: a call of ParseExpr or of Engine.Eval on engine A
\* ---------------------------------------------------------------------------

\* the first lines of ParseExpr and Engine.Eval: a lexer, a parser, two advances
Start(s, a, d) ==
  /\ pc = "idle"
  /\ pc' = "parsing"
  /\ api' = a
  /\ recv' = "A"
  /\ text' = s
  /\ data' = d
  /\ p' = advance(s, advance(s, NewParser))
  /\ stack' = <<>>
  /\ ctl' = CallParse(0, 0)
  /\ UNCHANGED <<ast, out, heap, funcs, auxVars>>

Step(m) ==
  /\ p' = m.p
  /\ stack' = m.stack
  /\ ctl' = m.ctl
  /\ UNCHANGED <<pc, api, recv, text, data, ast, out, heap, funcs, auxVars>>

ParseEnter == pc = "parsing" /\ ctl.op = "parse" /\ Step(parseEnter(text, p, stack, ctl))

ParseLoop == pc = "parsing" /\ ctl.op = "loop" /\ Step(parseLoop(text, p, stack, ctl))

ParseArgs == pc = "parsing" /\ ctl.op = "args" /\ Step(parseArgs(text, p, stack, ctl))

ParseReturn ==
  /\ pc = "parsing" /\ ctl.op = "ret" /\ stack # <<>>
  /\ Step(parseReturn(text, p, Pop(stack), Top(stack), ctl))

ArgsReturn ==
  /\ pc = "parsing" /\ ctl.op = "retargs"
  /\ Step(argsReturn(p, Pop(stack), Top(stack), ctl))

\* the end of ParseExpr (lines 1129-1136)
ParseExprDone ==
  /\ pc = "parsing" /\ api = "ParseExpr" /\ ctl.op = "ret" /\ stack = <<>>
  /\ pc' = "done"
  /\ ctl' = Idle
  /\ IF ctl.err # NoErr THEN out' = [NoOut EXCEPT !.err = ctl.err]
     ELSE IF trailingToken(p) THEN out' = [NoOut EXCEPT !.err = "extra token"]
     ELSE out' = [NoOut EXCEPT !.ast = ctl.e]
  /\ ast' = out'.ast
  /\ UNCHANGED <<api, recv, text, data, p, stack, heap, funcs, auxVars>>

\* the end of Engine.Eval (lines 1019-1026)
EvalDone ==
  /\ pc = "parsing" /\ api = "Eval" /\ ctl.op = "ret" /\ stack = <<>>
  /\ pc' = "done"
  /\ ctl' = Idle
  /\ IF ctl.err # NoErr
     THEN out' = [NoOut EXCEPT !.err = ctl.err] /\ UNCHANGED <<heap, funcs>>
     ELSE IF trailingToken(p)
     THEN out' = [NoOut EXCEPT !.err = "unexpected token"] /\ UNCHANGED <<heap, funcs>>
     ELSE LET l == loadFuncs(heap, funcs, recv) IN
       /\ out' = evalTop(ctl.e, data, l.heap[l.id])
       /\ heap' = l.heap
       /\ funcs' = l.funcs
  /\ ast' = out'.ast
  /\ UNCHANGED <<api, recv, text, data, p, stack, auxVars>>

\* ---------------------------------------------------------------------------
\* Specification of the parser: calls on enumerated texts
\* ---------------------------------------------------------------------------

\* the characters of the short texts
Alphabet == {"1", "a", "(", ")", "'", "\\", "+", "[", "]", " ", ",", "-"}

ShortTexts == UNION {[1 .. n -> Alphabet] : n \in 0 .. MaxLen}

Rep(str, n) == [i \in 1 .. (n * Len(str)) |-> str[((i - 1) % Len(str)) + 1]]

\* texts nested n deep: parentheses, unary operators, index brackets,
\* argument lists and else-branches of the ternary
ParenNest(n) == Rep(<<"(">>, n) \o <<"1">> \o Rep(<<")">>, n)
UnaryNest(n) == Rep(<<"-">>, n) \o <<"1">>
IndexNest(n) == Rep(<<"a", "[">>, n) \o <<"1">> \o Rep(<<"]">>, n)
ArgsNest(n) == Rep(<<"f", "(">>, n) \o <<"1">> \o Rep(<<")">>, n)
TernNest(n) == Rep(<<"1", "?", "1", ":">>, n) \o <<"1">>

NestDepths == MaxStackDepth .. (MaxStackDepth + MaxOver)
NestTexts(n) == {ParenNest(n), UnaryNest(n), IndexNest(n), ArgsNest(n), TernNest(n)}
DeepTexts == UNION {NestTexts(n) : n \in NestDepths}

\* the root data of the calls of this specification
ParseData == MapV("string", (<<"a">> :> SliceV(<<IntV(7), Nil>>)))

\* the calls on short texts: both entry points
ParseCalls == ShortTexts \X {"ParseExpr", "Eval"}

\* the calls on nested texts: they are only parsed, except the parenthesised
\* ones, whose AST is a single literal
DeepCalls ==
  ({ParenNest(n) : n \in NestDepths} \X {"Eval"}) \cup (DeepTexts \X {"ParseExpr"})

InitCommon ==
  /\ pc = "idle"
  /\ api = "none"
  /\ recv = "A"
  /\ arg = "none"
  /\ orig = NoExpr
  /\ thr = [t \in Threads |-> IdleThread]
  /\ text = <<>>
  /\ data = Nil
  /\ p = NewParser
  /\ stack = <<>>
  /\ ctl = Idle
  /\ ast = NoExpr
  /\ out = NoOut

\* engine A made by NewEngine(); B is an untouched zero value
Init ==
  /\ InitCommon
  /\ heap = <<defaultFuncsMap>>
  /\ funcs = [e \in Engines |-> IF e = "A" THEN 1 ELSE 0]

ParseStart == pc = "idle" /\ \E c \in ParseCalls : Start(c[1], c[2], ParseData)

Next ==
  \/ ParseStart
  \/ ParseEnter
  \/ ParseLoop
  \/ ParseArgs
  \/ ParseReturn
  \/ ArgsReturn
  \/ ParseExprDone
  \/ EvalDone

Spec == Init /\ [][Next]_vars

\* the same parser on the nested texts
DeepStart == pc = "idle" /\ \E c \in DeepCalls : Start(c[1], c[2], ParseData)

NextDeep ==
  \/ DeepStart
  \/ ParseEnter
  \/ ParseLoop
  \/ ParseArgs
  \/ ParseReturn
  \/ ArgsReturn
  \/ ParseExprDone
  \/ EvalDone

SpecDeep == Init /\ [][NextDeep]_vars

\* number of activations of parse on the stack
ParseFrames == Cardinality({i \in 1 .. Len(stack) : stack[i].k = "parse"})

\* ---------------------------------------------------------------------------
\* Claims about the parser
\* ---------------------------------------------------------------------------

Done == pc = "done"
Succeeded == Done /\ out.err = NoErr

\* the lexer has nothing but white space left to read
TextConsumed == skipSpace(text, p.pos) = Len(text)

\* C1: a call succeeds only when the parse has consumed the whole token
\* stream (the current token is end-of-input and, when the lexer did not fail,
\* no text is left), and it then yields one AST; when a token other than
\* end-of-input remains after the top-level parse, the call fails and nothing
\* is evaluated.
C1_WholeInputOrError ==
  Done =>
    /\ Succeeded => /\ p.curr.typ = "tEOF"
                    /\ out.ast # NoExpr
                    /\ p.lexErr = NoErr => TextConsumed
    /\ p.curr.typ # "tEOF" => /\ out.err # NoErr
                              /\ out.ast = NoExpr
                              /\ out.ev = {}

\* a call that parsed its expression completely and met a trailing token
C1_Witness ==
  /\ Done
  /\ text = <<"1", "a">>
  /\ p.curr.typ = "tIdent"
  /\ out.err \in {"extra token", "unexpected token"}

\* C2: when the lexer failed on a token of the text, the call returns an
\* error and evaluates nothing.
C2_LexerErrorReported ==
  (Done /\ p.lexErr # NoErr) => (out.err # NoErr /\ out.ast = NoExpr /\ out.ev = {})

\* C3: no activation of parse runs at a depth above MaxStackDepth, so there
\* are never more than MaxStackDepth + 1 of them; a call of parse at a greater
\* depth returns the stack-overflow error without touching the parser; and the
\* texts nested deeper than MaxStackDepth end in that error.
C3_DepthInv ==
  /\ ParseFrames <= MaxStackDepth + 1
  /\ \A i \in 1 .. Len(stack) : stack[i].k = "parse" => stack[i].depth <= MaxStackDepth
  /\ \A n \in NestDepths :
       (Done /\ n > MaxStackDepth /\ text \in NestTexts(n)) => out.err = "stack overflow"

C3_GuardStep ==
  (pc = "parsing" /\ ctl.op = "parse" /\ ctl.depth > MaxStackDepth)
    => (p' = p /\ stack' = stack /\ ctl' = Ret(NoExpr, "stack overflow"))

C3_DepthBounded == [](C3_DepthInv) /\ [][C3_GuardStep]_vars

\* a text nested one deeper than the limit has been refused
C3_Witness ==
  /\ Done
  /\ text = UnaryNest(MaxStackDepth + 1)
  /\ out.err = "stack overflow"

\* ---------------------------------------------------------------------------
\* Specification of evaluation: Engine.Eval on expressions given by their AST
\* ---------------------------------------------------------------------------

\* the root data: a nil entry, a map, a slice, a Go int, a NaN and a map
\* keyed by int
EvalData ==
  MapV("string",
       (<<"x">> :> Nil)
       @@ (<<"m">> :> MapV("string", (<<"a">> :> IntV(1))))
       @@ (<<"s">> :> SliceV(<<IntV(10), FloatV(5, 2)>>))
       @@ (<<"i">> :> IntK("int", 2))
       @@ (<<"n">> :> NaN)
       @@ (<<"k">> :> MapV("int", (1 :> StrV(<<"v">>)))))

\* the registry of engine A after the host registered its functions
EvalFuncs ==
  defaultFuncsMap @@ (<<"f", "a", "i", "l">> :> "fail") @@ (<<"b", "o", "o", "m">> :> "boom")

Lit(v) == LiteralExpr(v)
Var(c) == VariableExpr(<<c>>)

EvalLits ==
  {Lit(BoolV(TRUE)), Lit(BoolV(FALSE)), Lit(IntV(0)), Lit(IntV(1)), Lit(IntV(10)),
   Lit(FloatV(0, 1)), Lit(FloatV(5, 2)), Lit(StrV(<<>>)), Lit(StrV(<<"a">>)),
   Lit(StrV(<<"f", "a", "l", "s", "e">>)), Lit(StrV(<<"1", "0">>))}

EvalVars == {Var("x"), Var("m"), Var("s"), Var("i"), Var("n")}

\* operands that fail: 1/0 returns an error, fail() returns an error, boom() panics
DivZero == InfixExpr(Lit(IntV(1)), <<"/">>, Lit(IntV(0)))
FailCall == CallExpr(<<"f", "a", "i", "l">>, <<>>)
BoomCall == CallExpr(<<"b", "o", "o", "m">>, <<>>)

Operands == EvalLits \cup EvalVars \cup {DivZero, FailCall, BoomCall}

LogicOps == {<<"&", "&">>, <<"|", "|">>}
EqOps == {<<"=", "=">>, <<"!", "=">>}
MathOps == {<<"+">>, <<"-">>, <<"*">>, <<"/">>, <<"%">>}
CompareOps == {<<">">>, <<"<">>, <<">", "=">>, <<"<", "=">>}
BitOps == {<<"&">>, <<"|">>, <<"^">>, <<"<", "<">>, <<">", ">">>}
InfixOps == LogicOps \cup EqOps \cup MathOps \cup CompareOps \cup BitOps

InfixAsts == {InfixExpr(l, op, r) : l \in Operands, op \in InfixOps, r \in Operands}

UnaryAsts == {UnaryExpr(op, r) : op \in {<<"!">>, <<"-">>, <<"~">>}, r \in Operands}

Branches == {Lit(IntV(1)), Lit(StrV(<<"a">>)), DivZero, BoomCall}
TernaryAsts == {TernaryExpr(c, t, e) : c \in Operands, t \in Branches, e \in Branches}

\* receivers: nil, a missing name, a map, a slice, a string, and chains on them
BaseReceivers == {Var("x"), Var("z"), Var("m"), Var("s"), Lit(StrV(<<"a">>)), DivZero}
IndexArgs == {Lit(IntV(0)), Lit(StrV(<<"a">>)), DivZero, BoomCall}
ArgLists == {<<>>, <<Lit(IntV(1))>>, <<DivZero>>, <<Lit(IntV(1)), BoomCall>>}
MemberNames == {<<"a">>, <<"0">>, <<"l", "e", "n">>}

Access(rs) ==
  {MemberAccessExpr(r, k) : r \in rs, k \in MemberNames}
  \cup {IndexExpr(r, i) : r \in rs, i \in IndexArgs}
  \cup {MethodCallExpr(r, k, a) : r \in rs, k \in MemberNames, a \in ArgLists}

AccessAsts == Access(BaseReceivers) \cup Access(Access({Var("x"), Var("m")}))

CallAsts == {CallExpr(n, a) : n \in {<<"l", "e", "n">>, <<"n", "o", "w">>, <<"z">>},
                              a \in {<<>>, <<Var("s")>>, <<DivZero>>}}

EvalAsts == Operands \cup InfixAsts \cup UnaryAsts \cup TernaryAsts \cup AccessAsts \cup CallAsts

\* a host struct: field N tagged n, field L tagged with the ignore marker,
\* field E with a json tag, an unexported field e; methods that return a
\* value (Len, like the built-in), their argument (Ne), a value and a nil
\* error on a pointer receiver (Le), an error (Ee), nothing (Ll), take a
\* variadic parameter (El), or panic (Nn)
ObjFields ==
  <<Field(<<"N">>, <<"n">>, <<>>, IntV(5)),
    Field(<<"L">>, <<"-">>, <<>>, StrV(<<"s">>)),
    Field(<<"E">>, <<>>, <<"x", ",", "o">>, IntV(7)),
    Field(<<"e">>, <<>>, <<>>, IntV(9))>>

ObjMethods ==
  (<<"L", "e", "n">> :> Method(FALSE, <<>>, FALSE, "value", IntV(77)))
  @@ (<<"N", "e">> :> Method(FALSE, <<"float64">>, FALSE, "arg", Nil))
  @@ (<<"L", "e">> :> Method(TRUE, <<>>, FALSE, "valnil", IntV(3)))
  @@ (<<"E", "e">> :> Method(FALSE, <<>>, FALSE, "err", Nil))
  @@ (<<"L", "l">> :> Method(FALSE, <<>>, FALSE, "void", Nil))
  @@ (<<"E", "l">> :> Method(FALSE, <<"int64">>, TRUE, "value", IntV(4)))
  @@ (<<"N", "n">> :> Method(FALSE, <<>>, FALSE, "panic", Nil))

\* the root data as a pointer to the struct, and as the struct itself
RootObj == StructV(TRUE, ObjFields, ObjMethods)
RootVal == StructV(FALSE, ObjFields, ObjMethods)

ObjNames ==
  DOMAIN ObjMethods
  \cup {<<"N">>, <<"n">>, <<"L">>, <<"-">>, <<"E">>, <<"x">>, <<"e">>, <<"z">>,
        <<"l", "e", "n">>, <<"f", "a", "i", "l">>, <<"b", "o", "o", "m">>}
ObjArgs == {<<>>, <<Lit(IntV(1))>>, <<Lit(StrV(<<"a">>))>>, <<Var("z")>>, <<DivZero>>,
            <<Lit(IntV(1)), Lit(IntV(10))>>}

ObjAsts ==
  {CallExpr(n, a) : n \in ObjNames, a \in ObjArgs}
  \cup {VariableExpr(n) : n \in ObjNames}
  \cup {TernaryExpr(Lit(BoolV(TRUE)), Lit(IntV(1)), VariableExpr(<<"e">>)),
        InfixExpr(Lit(IntV(1)), <<"+">>, CallExpr(<<"N", "n">>, <<>>))}

\* root data with a value of every container kind: an array, a slice, a
\* string, maps keyed by string, by int and by bool, an int, a pointer to
\* the host struct, and a nil
KindData ==
  MapV("string",
       (<<"a">> :> ArrayV(<<IntV(1), IntV(2)>>))
       @@ (<<"s">> :> SliceV(<<IntV(10), FloatV(5, 2), Nil>>))
       @@ (<<"t">> :> StrV(<<"a", "b">>))
       @@ (<<"m">> :> MapV("string", (<<"a">> :> IntV(1))))
       @@ (<<"k">> :> MapV("int", (1 :> StrV(<<"v">>))))
       @@ (<<"b">> :> MapV("bool", (TRUE :> StrV(<<"y">>))))
       @@ (<<"i">> :> IntK("int", 2))
       @@ (<<"o">> :> RootObj)
       @@ (<<"x">> :> Nil))

KindVars == {Var("a"), Var("s"), Var("t"), Var("m"), Var("k"), Var("b"), Var("i"), Var("x")}
KindKeys == {<<"0">>, <<"1">>, <<"9">>, <<"-", "1">>, <<"a">>, <<"1", "x">>, <<>>}
KindIndexes ==
  {Lit(IntV(0)), Lit(IntV(1)), Lit(IntV(9)), Lit(IntV(-1)), Lit(StrV(<<"a">>)),
   Lit(StrV(<<"1">>)), Lit(StrV(<<"1", "x">>)), Lit(BoolV(TRUE)), Lit(FloatV(5, 2)),
   Var("x"), Var("s")}

KindAsts ==
  {CallExpr(<<"l", "e", "n">>, <<v>>) : v \in KindVars}
  \cup {CallExpr(<<"l", "e", "n">>, <<>>), CallExpr(<<"l", "e", "n">>, <<Var("a"), Var("s")>>)}
  \cup {MethodCallExpr(v, <<"l", "e", "n">>, <<>>) : v \in KindVars}
  \cup {MemberAccessExpr(v, k) : v \in KindVars, k \in KindKeys}
  \cup {IndexExpr(v, i) : v \in KindVars, i \in KindIndexes}
  \cup {MethodCallExpr(Var("o"), n, <<>>) : n \in DOMAIN ObjMethods}

InitEval ==
  /\ InitCommon
  /\ heap = <<EvalFuncs>>
  /\ funcs = [e \in Engines |-> IF e = "A" THEN 1 ELSE 0]

\* Engine.Eval on engine en for an expression whose AST is e (line 1026)
EvalAst(en, e, d) ==
  /\ pc = "idle"
  /\ pc' = "done"
  /\ api' = "Eval"
  /\ recv' = en
  /\ ast' = e
  /\ data' = d
  /\ LET l == loadFuncs(heap, funcs, en) IN
       /\ out' = evalTop(e, d, l.heap[l.id])
       /\ heap' = l.heap
       /\ funcs' = l.funcs
  /\ UNCHANGED <<parserVars, auxVars>>

EvalOnData == pc = "idle" /\ \E e \in EvalAsts : EvalAst("A", e, EvalData)

EvalOnNil == pc = "idle" /\ \E e \in Operands \cup CallAsts \cup Access(BaseReceivers) : EvalAst("A", e, Nil)

EvalOnObj == pc = "idle" /\ \E e \in ObjAsts, d \in {RootObj, RootVal} : EvalAst("A", e, d)

EvalOnKinds == pc = "idle" /\ \E e \in KindAsts : EvalAst("A", e, KindData)

NextEval ==
  \/ EvalOnData
  \/ EvalOnNil
  \/ EvalOnObj

SpecEval == InitEval /\ [][NextEval]_vars

\* Specification of the kinds of host values: Engine.Eval of len, member and
\* index expressions over arrays, slices, strings, maps of each key kind,
\* integers, structs and nil
NextKinds == EvalOnKinds

SpecKinds == InitEval /\ [][NextKinds]_vars

\* ---------------------------------------------------------------------------
\* Claims about evaluation
\* ---------------------------------------------------------------------------

HasPrefix(path, pre) == Len(path) >= Len(pre) /\ SubSeq(path, 1, Len(pre)) = pre

\* some node below the child `child` of the root has been evaluated
Entered(child) == \E q \in out.ev : HasPrefix(q, <<child>>)

\* the result of evaluating a child of the root on its own
Sub(e) == evalTop(e, data, heap[funcs[recv]])

\* C4: L && R with L falsy is false, L || R with L truthy is true, both
\* without evaluating R and without error; otherwise R is evaluated, its error
\* is returned, and without error the result is the truth value of R.
C4_ShortCircuit ==
  (Done /\ ast.k = "Infix" /\ ast.op \in LogicOps /\ Sub(ast.left).err = NoErr) =>
    LET lv == Sub(ast.left).v
        r == Sub(ast.right)
        decided == IF ast.op = <<"&", "&">> THEN ~toBool(lv) ELSE toBool(lv)
    IN IF decided
       THEN out.err = NoErr /\ out.v = BoolV(ast.op = <<"|", "|">>) /\ ~Entered("right")
       ELSE /\ Entered("right")
            /\ out.err = r.err
            /\ r.err = NoErr => out.v = BoolV(toBool(r.v))

\* false && (1/0) has been evaluated
C4_Witness ==
  /\ Done
  /\ ast = InfixExpr(Lit(BoolV(FALSE)), <<"&", "&">>, DivZero)
  /\ out.v = BoolV(FALSE)
  /\ out.err = NoErr

\* C5: a ternary whose condition fails returns that error and evaluates no
\* branch; otherwise it evaluates the then-branch for a truthy condition and
\* the else-branch for a falsy one, returns that branch's result, and never
\* evaluates the other branch.
C5_TernaryOneBranch ==
  (Done /\ ast.k = "Ternary") =>
    LET c == Sub(ast.cond) IN
    IF c.err # NoErr
    THEN out.err = c.err /\ ~Entered("then") /\ ~Entered("else")
    ELSE IF toBool(c.v)
    THEN /\ Entered("then") /\ ~Entered("else")
         /\ out.v = Sub(ast.then).v /\ out.err = Sub(ast.then).err
    ELSE /\ Entered("else") /\ ~Entered("then")
         /\ out.v = Sub(ast.else).v /\ out.err = Sub(ast.else).err

\* true ? 1 : (1/0) has been evaluated
C5_Witness ==
  /\ Done
  /\ ast = TernaryExpr(Lit(BoolV(TRUE)), Lit(IntV(1)), DivZero)
  /\ out.v = IntV(1)
  /\ out.err = NoErr

IsNumber(v) == v.t \in IntKinds \cup {"float"}
IsZero(v) == IsNumber(v) /\ FloatIsZero(toFloat(v).v)

C8_PlusNumberNonNumeric ==
  (Done /\ ast.k = "Infix" /\ ast.op = <<"+">>
        /\ Sub(ast.left).err = NoErr /\ Sub(ast.right).err = NoErr) =>
    LET lv == Sub(ast.left).v
        rv == Sub(ast.right).v
    IN /\ (out.err = NoErr /\ out.v.t = "string") => lv.t = "string"
       /\ (IsNumber(lv) /\ ~toFloat(rv).ok) => out.err # NoErr

\* the equality of the claim: deep equality, else numeric equality of two
\* float-coercible values, else false
EqualValues(l, r) ==
  \/ DeepEqual(l, r)
  \/ toFloat(l).ok /\ toFloat(r).ok /\ FEq(toFloat(l).v, toFloat(r).v)

\* C9: l == r is true when l and r are deeply equal, else the float
\* comparison when both are float-coercible, else false; l != r is its
\* negation; neither returns an error.
C9_Equality ==
  (Done /\ ast.k = "Infix" /\ ast.op \in EqOps
        /\ Sub(ast.left).err = NoErr /\ Sub(ast.right).err = NoErr) =>
    LET eq == EqualValues(Sub(ast.left).v, Sub(ast.right).v) IN
    /\ out.err = NoErr
    /\ out.v = BoolV(IF ast.op = <<"=", "=">> THEN eq ELSE ~eq)

\* 'a' != 'a' has been evaluated: deeply equal values that are not numbers
C9_Witness ==
  /\ Done
  /\ ast = InfixExpr(Lit(StrV(<<"a">>)), <<"!", "=">>, Lit(StrV(<<"a">>)))
  /\ out.v = BoolV(FALSE)
  /\ out.err = NoErr

\* ---------------------------------------------------------------------------
\* Specification of the registry: engines are constructed, functions are
\* registered on them and calls are evaluated, in any order
\* ---------------------------------------------------------------------------

\* NewEngine(): the engine e is a new one holding a fresh default map
newEngine(h, f, e) ==
  LET d == defaultFuncs(h) IN [heap |-> d.heap, funcs |-> Store(f, e, d.id)]

RegNames == {<<>>, <<"l", "e", "n">>, <<"f">>}
RegFuncs == {"nil", "alt", "one"}
RegAsts == {CallExpr(<<"l", "e", "n">>, <<Lit(StrV(<<"a">>))>>), CallExpr(<<"f">>, <<>>)}

InitReg ==
  /\ InitCommon
  /\ heap = <<>>
  /\ funcs = [e \in Engines |-> 0]

NewEngineCall(e) ==
  /\ Len(heap) < MaxHeap
  /\ LET n == newEngine(heap, funcs, e) IN heap' = n.heap /\ funcs' = n.funcs
  /\ api' = "NewEngine"
  /\ recv' = e
  /\ arg' = "none"
  /\ out' = NoOut
  /\ UNCHANGED <<pc, data, ast, parserVars, orig, thr>>

RegisterFuncCall(e, name, fn) ==
  LET r == registerFunc(heap, funcs, e, name, fn) IN
  /\ Len(r.heap) <= MaxHeap
  /\ heap' = r.heap
  /\ funcs' = r.funcs
  /\ api' = "RegisterFunc"
  /\ recv' = e
  /\ arg' = fn
  /\ text' = name
  /\ out' = [NoOut EXCEPT !.err = r.err]
  /\ UNCHANGED <<pc, data, ast, p, stack, ctl, orig, thr>>

\* Engine.Eval on engine e of a call expression; the call returns
EvalCall(e, a) ==
  LET l == loadFuncs(heap, funcs, e) IN
  /\ Len(l.heap) <= MaxHeap
  /\ heap' = l.heap
  /\ funcs' = l.funcs
  /\ api' = "Eval"
  /\ recv' = e
  /\ ast' = a
  /\ arg' = "none"
  /\ out' = evalTop(a, Nil, l.heap[l.id])
  /\ UNCHANGED <<pc, data, parserVars, orig, thr>>

NextReg ==
  \/ \E e \in Engines : NewEngineCall(e)
  \/ \E e \in Engines, name \in RegNames, fn \in RegFuncs : RegisterFuncCall(e, name, fn)
  \/ \E e \in Engines, a \in RegAsts : EvalCall(e, a)

SpecReg == InitReg /\ [][NextReg]_vars

\* what a call of name n resolves to on engine b: the function found in the
\* map that loadFuncs returns
Resolve(h, f, b, n) ==
  LET l == loadFuncs(h, f, b)
      m == l.heap[l.id]
  IN IF n \in DOMAIN m THEN m[n] ELSE "none"

ResolvedNames == {<<"l", "e", "n">>, <<"n", "o", "w">>, <<"f">>}

\* C10: a RegisterFunc on one engine leaves what every other engine resolves
\* every name to unchanged, and an engine made by NewEngine resolves every
\* name to the default, whatever has been registered on other engines before.
C10_RegistryPerEngine ==
  [][/\ api' = "RegisterFunc" =>
          \A b \in Engines \ {recv'} : \A n \in ResolvedNames :
            Resolve(heap', funcs', b, n) = Resolve(heap, funcs, b, n)
     /\ api' = "NewEngine" =>
          /\ \A n \in ResolvedNames :
               Resolve(heap', funcs', recv', n) = Resolve(<<>>, [e \in Engines |-> 0], recv', n)
          /\ \A b \in Engines \ {recv'} : \A n \in ResolvedNames :
               Resolve(heap', funcs', b, n) = Resolve(heap, funcs, b, n)]_vars

\* len has been overridden on A while B, constructed by NewEngine, still
\* resolves len to the built-in
C10_Witness ==
  /\ api = "RegisterFunc"
  /\ recv = "A"
  /\ out.err = NoErr
  /\ Resolve(heap, funcs, "A", <<"l", "e", "n">>) = "alt"
  /\ funcs["B"] # 0
  /\ Resolve(heap, funcs, "B", <<"l", "e", "n">>) = "len"

\* C11: a RegisterFunc with an empty name or a nil function returns an error
\* and leaves the registry as it was: no map allocated, no snapshot stored.
C11_RejectedRegisterFunc ==
  [][(api' = "RegisterFunc" /\ (text' = <<>> \/ arg' = "nil")) =>
       (out'.err # NoErr /\ heap' = heap /\ funcs' = funcs)]_vars

\* RegisterFunc("", alt) has returned on engine A, which holds its defaults
C11_Witness ==
  /\ api = "RegisterFunc"
  /\ recv = "A"
  /\ text = <<>>
  /\ arg = "alt"
  /\ out.err = "func name cannot be empty"
  /\ funcs["A"] # 0
  /\ Resolve(heap, funcs, "A", <<"f">>) = "none"

\* ---------------------------------------------------------------------------
\* Specification of concurrent calls: two goroutines call RegisterFunc and
\* Eval on engine A, interleaved at the atomic Load and Store of e.funcs
\* ---------------------------------------------------------------------------

RaceNames == {<<>>, <<"f">>, <<"g">>}
RaceFuncs == {"nil", "alt", "one"}

\* f() + f() adds the results of two calls of the same name
TwoCalls == InfixExpr(CallExpr(<<"f">>, <<>>), <<"+">>, CallExpr(<<"f">>, <<>>))
RaceAsts == {TwoCalls, CallExpr(<<"g">>, <<>>)}

\* engine A is either made by NewEngine() or an untouched zero value
InitRace ==
  /\ InitCommon
  /\ heap = <<defaultFuncsMap>>
  /\ funcs \in {[e \in Engines |-> IF e = "A" THEN 1 ELSE 0],
                [e \in Engines |-> IF e = "B" THEN 1 ELSE 0]}

\* e.funcs.Load() in loadFuncs: the goroutine holds the stored map, or, when
\* nothing is stored, a new default map that it has yet to store
Load(t, call) ==
  IF funcs["A"] # 0
  THEN /\ thr' = [thr EXCEPT ![t] = [call EXCEPT !.pc = "loaded", !.curr = funcs["A"]]]
       /\ UNCHANGED registryVars
  ELSE LET d == defaultFuncs(heap) IN
       /\ thr' = [thr EXCEPT ![t] = [call EXCEPT !.pc = "init", !.curr = d.id]]
       /\ heap' = d.heap
       /\ UNCHANGED funcs

callVars == <<pc, api, recv, arg, orig, text, data, p, stack, ctl, ast, out>>

\* RegisterFunc is called: the argument tests, then loadFuncs' Load
RegisterBegin(t, name, fn) ==
  /\ thr[t].pc = "idle"
  /\ LET call == [IdleThread EXCEPT !.op = "RegisterFunc", !.name = name, !.fn = fn] IN
     IF checkArgs(name, fn) # NoErr
     THEN /\ thr' = [thr EXCEPT ![t] = [call EXCEPT !.pc = "done", !.res = [v |-> Nil, err |-> checkArgs(name, fn)]]]
          /\ UNCHANGED registryVars
     ELSE Load(t, call)
  /\ UNCHANGED callVars

\* Eval is called on an expression whose AST is e: loadFuncs' Load
EvalBegin(t, e) ==
  /\ thr[t].pc = "idle"
  /\ Load(t, [IdleThread EXCEPT !.op = "Eval", !.e = e])
  /\ UNCHANGED callVars

\* e.funcs.Store(m) in the recover of loadFuncs
InitStore(t) ==
  /\ thr[t].pc = "init"
  /\ funcs' = Store(funcs, "A", thr[t].curr)
  /\ thr' = [thr EXCEPT ![t].pc = "loaded"]
  /\ UNCHANGED <<heap, callVars>>

\* the copy and the Store of RegisterFunc, and its return
RegisterEnd(t) ==
  /\ thr[t].pc = "loaded" /\ thr[t].op = "RegisterFunc"
  /\ LET n == publish(heap, funcs, "A", thr[t].curr, thr[t].name, thr[t].fn) IN
       heap' = n.heap /\ funcs' = n.funcs
  /\ thr' = [thr EXCEPT ![t].pc = "done"]
  /\ UNCHANGED callVars

\* ast.Eval with the map that was loaded, and the return of Eval
EvalEnd(t) ==
  /\ thr[t].pc = "loaded" /\ thr[t].op = "Eval"
  /\ LET r == evalTop(thr[t].e, Nil, heap[thr[t].curr]) IN
       thr' = [thr EXCEPT ![t].pc = "done", ![t].res = [v |-> r.v, err |-> r.err]]
  /\ UNCHANGED <<registryVars, callVars>>

NextRace ==
  \/ \E t \in Threads, name \in RaceNames, fn \in RaceFuncs : RegisterBegin(t, name, fn)
  \/ \E t \in Threads, e \in RaceAsts : EvalBegin(t, e)
  \/ \E t \in Threads : InitStore(t)
  \/ \E t \in Threads : RegisterEnd(t)
  \/ \E t \in Threads : EvalEnd(t)

SpecRace == InitRace /\ [][NextRace]_vars

\* the RegisterFunc calls that returned nil
Registered(t) == thr[t].op = "RegisterFunc" /\ thr[t].pc = "done" /\ thr[t].res.err = NoErr

\* C13: once RegisterFunc calls on one engine have returned nil, in any
\* interleaving, the current snapshot holds every name they registered, bound
\* to the function of one of the calls that registered it, and the built-ins
\* that no call overrode.
C13_NoRegistrationLost ==
  \A t \in Threads : Registered(t) =>
    /\ thr[t].name \in DOMAIN heap[funcs["A"]]
    /\ heap[funcs["A"]][thr[t].name] \in {thr[u].fn : u \in {u \in Threads : Registered(u) /\ thr[u].name = thr[t].name}}
    /\ \A n \in DOMAIN defaultFuncsMap : n \in DOMAIN heap[funcs["A"]]

\* C14: a map, once allocated, is never modified; the address a goroutine
\* loaded stays the one it evaluates with; and the two calls of f() + f()
\* resolve in the same map, so the sum is that of one function or the call fails.
C14_Immutable == \A i \in 1 .. Len(heap) : heap'[i] = heap[i]
C14_LoadedOnce ==
  \A t \in Threads :
    (thr[t].op = "Eval" /\ thr[t].pc \in {"init", "loaded"}) =>
      /\ thr'[t].curr = thr[t].curr
      /\ thr'[t].pc = "done" =>
           LET r == evalTop(thr[t].e, Nil, heap[thr[t].curr]) IN
           thr'[t].res.err = r.err /\ thr'[t].res.v = r.v
C14_OneSnapshot ==
  \A t \in Threads :
    (thr[t].pc = "done" /\ thr[t].e = TwoCalls) =>
      \/ thr[t].res.err = "function or method not found"
      \/ thr[t].res.err = NoErr /\ thr[t].res.v \in {IntV(2), IntV(246)}
C14_SnapshotPerEval == [](C14_OneSnapshot) /\ [][C14_Immutable /\ C14_LoadedOnce]_vars

\* an Eval of f() + f() loaded the defaults, RegisterFunc("f", alt) then
\* published its map, and the Eval returned not-found
C14_Witness ==
  /\ thr["t1"].op = "Eval" /\ thr["t1"].pc = "done" /\ thr["t1"].e = TwoCalls
  /\ thr["t1"].res.err = "function or method not found"
  /\ Registered("t2") /\ thr["t2"].name = <<"f">>
  /\ thr["t1"].curr # funcs["A"]
  /\ <<"f">> \in DOMAIN heap[funcs["A"]]

\* ---------------------------------------------------------------------------
\* Specification of function names: registrations under names of either
\* letter case and calls of them, on engine A
\* ---------------------------------------------------------------------------

CaseNames == {<<"n">>, <<"N">>, <<"L", "e", "n">>}
CaseFuncs == {"alt", "one"}
CaseAsts ==
  {CallExpr(n, <<>>) : n \in CaseNames \cup {<<"l", "e", "n">>, <<"L", "E", "N">>, <<"n", "o", "w">>}}

NextNames ==
  \/ \E name \in CaseNames, fn \in CaseFuncs : RegisterFuncCall("A", name, fn)
  \/ \E a \in CaseAsts : EvalCall("A", a)

SpecNames == InitReg /\ [][NextNames]_vars

\* the names of the current snapshot of engine b that equal n up to letter case
SameName(b, n) == {k \in DOMAIN heap[funcs[b]] : ToLower(k) = ToLower(n)}

\* C12: a Call whose name equals, up to letter case, the one name N under
\* which a function is registered invokes that function, for every non-empty
\* N, including names with upper-case letters.
C12_CaseInsensitiveNames ==
  (api = "Eval" /\ ast.k = "Call" /\ Cardinality(SameName(recv, ast.name)) = 1) =>
    LET k == CHOOSE k \in SameName(recv, ast.name) : TRUE
        r == ApplyFn(heap[funcs[recv]][k], <<>>)
    IN ast.args = <<>> => (out.err = r.err /\ out.v = r.v)

LenName == <<"l", "e", "n">>
NowName == <<"n", "o", "w">>

\* C15: the first Eval or RegisterFunc on a zero-value engine makes its
\* registry the built-ins len and now; a successful RegisterFunc(n, f) on it
\* leaves a snapshot of exactly len, now and n, with n bound to f; and an Eval
\* of a call of a name the snapshot holds resolves it.
C15_FirstUse ==
  LET snap == heap'[funcs'[recv']] IN
  /\ (funcs[recv'] = 0 /\ api' = "Eval") =>
       /\ funcs'[recv'] # 0
       /\ DOMAIN snap = {LenName, NowName}
       /\ ast'.name \in {LenName, NowName} => out'.err = NoErr
       /\ ast'.name = LenName => out'.v = IntK("int", 0)
  /\ (funcs[recv'] = 0 /\ api' = "RegisterFunc" /\ out'.err = NoErr) =>
       /\ funcs'[recv'] # 0
       /\ DOMAIN snap = {LenName, NowName, text'}
       /\ snap[text'] = arg'
       /\ \A n \in {LenName, NowName} \ {text'} : snap[n] = defaultFuncsMap[n]
C15_Resolves ==
  (api = "Eval" /\ funcs[recv] # 0) =>
    /\ {LenName, NowName} \subseteq DOMAIN heap[funcs[recv]]
    /\ ast.name \in DOMAIN heap[funcs[recv]] => out.err = NoErr
C15_ZeroValueEngine == [](C15_Resolves) /\ [][C15_FirstUse]_vars

\* the values of the arguments of the call at the root, when all evaluate
ArgValues == [i \in 1 .. Len(ast.args) |-> Sub(ast.args[i]).v]
ArgsEvaluate == \A i \in 1 .. Len(ast.args) : Sub(ast.args[i]).err = NoErr

\* C16: a Call whose name the registry holds invokes the registered function
\* and no method of the root data; otherwise, with non-nil root data that has
\* the method, the method is called; otherwise the call fails with the
\* function-or-method-not-found error.
C16_RegistryFirst ==
  (Done /\ api = "Eval" /\ ast.k = "Call" /\ ArgsEvaluate) =>
    LET fns == heap[funcs[recv]]
        m == callReflectMethod(data, ast.name, ArgValues)
    IN IF ToLower(ast.name) \in DOMAIN fns
       THEN LET r == ApplyFn(fns[ToLower(ast.name)], ArgValues) IN
            IF r.pn THEN out.err # NoErr /\ out.v = Nil
            ELSE out.err = r.err /\ out.v = r.v
       ELSE IF data # Nil /\ m.err = NoErr
       THEN out.err = NoErr /\ out.v = m.v
       ELSE out.err = "function or method not found" /\ out.v = Nil

\* Len() on a root struct with a method Len has returned the built-in's 0,
\* not the method's 77
C16_Witness ==
  /\ Done
  /\ data = RootObj
  /\ ast = CallExpr(<<"L", "e", "n">>, <<>>)
  /\ out.v = IntK("int", 0)
  /\ out.err = NoErr

\* C17: no panic leaves Engine.Eval: when a registered function, a host
\* method or the reflection layer panics during the evaluation, Eval returns
\* a non-nil error and a nil result.
C17_NoPanicEscapes ==
  (Done /\ api = "Eval") =>
    /\ ~out.crashed
    /\ (out.ast # NoExpr /\ Eval(ast, Context(data, heap[funcs[recv]]), <<>>).pn) =>
         (out.err # NoErr /\ out.v = Nil)

\* the unexported field e of the root struct has been read, which panics in
\* reflect, and Eval has returned the error
C17_Witness ==
  /\ Done
  /\ api = "Eval"
  /\ data = RootObj
  /\ ast = VariableExpr(<<"e">>)
  /\ out.err = "panic: reflect: unexported field"
  /\ out.v = Nil

\* the values of the fields of the root struct whose tag is the ignore marker
IgnoredValues ==
  {data.fields[i].v : i \in {i \in 1 .. Len(data.fields) :
     (IF data.fields[i].okra # <<>> THEN data.fields[i].okra ELSE data.fields[i].json) = <<"-">>}}

\* C20: member access on a struct, by any name, never returns the value of a
\* field whose tag is the ignore marker.
C20_IgnoredFieldHidden ==
  (Done /\ api = "Eval" /\ data.t = "struct" /\ ast.k = "Variable" /\ out.err = NoErr) =>
    out.v \notin IgnoredValues

\* ---------------------------------------------------------------------------
\* Specification of the round trip: ParseExpr, String, ParseExpr
\* ---------------------------------------------------------------------------

\* strconv.Quote of one character of a string literal: the double quote and
\* the runes of the simple escapes are written with a backslash
QuoteChar(c) ==
  IF c = "\"" THEN <<"\\", "\"">>
  ELSE IF \E x \in SimpleEscapes : c = "\\" \o x
  THEN <<"\\", CHOOSE x \in SimpleEscapes : c = "\\" \o x>>
  ELSE <<c>>

RECURSIVE Quote(_)
Quote(s) ==
  IF s = <<>> THEN <<"\"", "\"">>
  ELSE LET q == Quote(SubSeq(s, 1, Len(s) - 1)) IN
    SubSeq(q, 1, Len(q) - 1) \o QuoteChar(s[Len(s)]) \o <<"\"">>

\* fmt.Sprint of the value of a literal that is not a string
SprintLiteral(v) == Sprint(v)

RECURSIVE String(_), JoinStrings(_)
\* strings.Join(args, ", ") of the String() of each argument
JoinStrings(args) ==
  IF args = <<>> THEN <<>>
  ELSE IF Len(args) = 1 THEN String(args[1])
  ELSE String(args[1]) \o <<",", " ">> \o JoinStrings(Tail(args))

\* the String method of each node
String(e) ==
  CASE e.k = "Literal" -> IF e.v.t = "string" THEN Quote(e.v.v) ELSE SprintLiteral(e.v)
    [] e.k = "Variable" -> e.name
    [] e.k = "MemberAccess" -> String(e.left) \o <<".">> \o e.key
    [] e.k = "Index" -> String(e.left) \o <<"[">> \o String(e.index) \o <<"]">>
    [] e.k = "MethodCall" ->
         String(e.left) \o <<".">> \o e.method \o <<"(">> \o JoinStrings(e.args) \o <<")">>
    [] e.k = "Call" -> e.name \o <<"(">> \o JoinStrings(e.args) \o <<")">>
    [] e.k = "Unary" -> <<"(">> \o e.op \o String(e.right) \o <<")">>
    [] e.k = "Infix" ->
         <<"(">> \o String(e.left) \o <<" ">> \o e.op \o <<" ">> \o String(e.right) \o <<")">>
    [] e.k = "Ternary" ->
         <<"(">> \o String(e.cond) \o <<" ", "?", " ">> \o String(e.then)
         \o <<" ", ":", " ">> \o String(e.else) \o <<")">>

\* the characters of the texts of the round trip
TripAlphabet == {"1", ".", "a", "'", "\"", "+", "(", ")"}

TripTexts == UNION {[1 .. n -> TripAlphabet] : n \in 0 .. MaxLen}

\* the data the two ASTs are evaluated on
TripData == {Nil, ParseData}

TripStart == pc = "idle" /\ \E s \in TripTexts : Start(s, "ParseExpr", ParseData)

\* ParseExpr(ast.String()) on the AST that ParseExpr returned
Reparse ==
  /\ pc = "done" /\ api = "ParseExpr" /\ orig = NoExpr /\ out.ast # NoExpr
  /\ orig' = ast
  /\ pc' = "parsing"
  /\ text' = String(ast)
  /\ p' = advance(text', advance(text', NewParser))
  /\ stack' = <<>>
  /\ ctl' = CallParse(0, 0)
  /\ UNCHANGED <<api, recv, arg, thr, data, ast, out, heap, funcs>>

NextTrip ==
  \/ TripStart
  \/ ParseEnter
  \/ ParseLoop
  \/ ParseArgs
  \/ ParseReturn
  \/ ArgsReturn
  \/ ParseExprDone
  \/ Reparse

SpecTrip == Init /\ [][NextTrip]_vars

SameOutcome(a, b) == a.v = b.v /\ a.err = b.err

\* C18: the text String() gives for an AST that ParseExpr returned parses
\* again, and the second AST evaluates on every data value to the same value
\* of the same kind, or the same error, as the first.
C18_RoundTrip ==
  (Done /\ orig # NoExpr) =>
    /\ out.ast # NoExpr
    /\ \A d \in TripData :
         SameOutcome(evalTop(orig, d, defaultFuncsMap), evalTop(out.ast, d, defaultFuncsMap))

\* ---------------------------------------------------------------------------
\* Specification of EvalTo[T]: the type parameter is recorded in arg
\* ---------------------------------------------------------------------------

SignedKinds == {"int8", "int64"}
FloatKinds == {"float64"}
TargetKinds == SignedKinds \cup FloatKinds \cup {"uint8", "string", "bool", "any"}

\* var zero T
ZeroT(T) ==
  CASE T \in SignedKinds \cup {"uint8"} -> IntK(T, 0)
    [] T = "float64" -> FloatV(0, 1)
    [] T = "string" -> StrV(<<>>)
    [] T = "bool" -> BoolV(FALSE)
    [] OTHER -> Nil

\* raw.(T): no nil value has a type, every other value is an any
HasType(raw, T) ==
  CASE raw = Nil -> FALSE
    [] T = "any" -> TRUE
    [] T = "float64" -> raw.t = "float"
    [] OTHER -> raw.t = T

\* an integer converted to an integer kind keeps its low bits
WrapTo(T, i) ==
  CASE T = "int8" -> ((i + 128) % 256) - 128
    [] T = "uint8" -> i % 256
    [] OTHER -> i

\* the values a float outside the range of the integer type converts to: the
\* language leaves them to the implementation
ImplDefined(T) == IF T = "uint8" THEN 0 .. 255 ELSE -128 .. 127

\* string(rune(i)) for the integers of the model
RuneString(i) ==
  CASE i = 97 -> <<"a">>
    [] i \in 0 .. 9 -> <<"\\x0" \o NatToStr(i)[1]>>
    [] i < 0 -> <<"\\ufffd">>
    [] OTHER -> <<"\\u" \o NatToStr(i)[1]>>

\* rv.IsValid() && rv.Type().ConvertibleTo(targetType), for the kinds of the model
Convertible(raw, T) ==
  /\ raw # Nil
  /\ CASE T \in SignedKinds \cup FloatKinds \cup {"uint8"} -> raw.t \in IntKinds \cup {"float"}
       [] T = "string" -> raw.t \in IntKinds \cup {"string"}
       [] T = "bool" -> raw.t = "bool"
       [] OTHER -> FALSE

\* rv.Convert(targetType) to a target that is no signed integer and no float
Convert(raw, T) ==
  CASE T = "uint8" /\ raw.t \in IntKinds -> {IntK(T, WrapTo(T, raw.v))}
    [] T = "uint8" /\ raw.t = "float" ->
         IF ~IsNaN(raw) /\ raw.n >= 0 /\ QuoT(raw.n, raw.d) <= 255
         THEN {IntK(T, QuoT(raw.n, raw.d))}
         ELSE {IntK(T, x) : x \in ImplDefined(T)}
    [] T = "string" /\ raw.t \in IntKinds -> {StrV(RuneString(raw.v))}
    [] OTHER -> {raw}

\* mutant: no target kind is treated as numeric
numericTargetNever(T) == FALSE

\* the signed-integer and float kinds of the two switches (lines 1097-1099, 1106, 1113)
numericTarget(T) == T \in SignedKinds \cup FloatKinds

EOut(v, err) == [v |-> v, err |-> err]

\* EvalTo after e.Eval returned r: the set of the results it can return
evalTo(T, r) ==
  LET raw == r.v
      incompatible == {EOut(ZeroT(T), "result type is not compatible with target type")}
  IN IF r.err # NoErr THEN {EOut(ZeroT(T), r.err)}
     ELSE IF HasType(raw, T) THEN {EOut(raw, NoErr)}
     ELSE IF T = "any" THEN {EOut(ZeroT(T), "target type cannot be nil")}
     ELSE IF Convertible(raw, T) /\ ~numericTarget(T)
     THEN {EOut(v, NoErr) : v \in Convert(raw, T)}
     ELSE IF numericTarget(T) /\ T \in SignedKinds
     THEN IF raw # Nil /\ toInt64(raw).ok THEN {EOut(IntK(T, WrapTo(T, toInt64(raw).v)), NoErr)}
          ELSE IF raw # Nil /\ toFloat(raw).ok
          THEN LET f == toFloat(raw).v IN
               IF IsNaN(f) THEN {EOut(IntK(T, x), NoErr) : x \in ImplDefined(T)}
               ELSE {EOut(IntK(T, WrapTo(T, QuoT(f.n, f.d))), NoErr)}
          ELSE incompatible
     ELSE IF numericTarget(T) /\ T \in FloatKinds
     THEN IF raw # Nil /\ toFloat(raw).ok THEN {EOut(toFloat(raw).v, NoErr)} ELSE incompatible
     ELSE incompatible

\* the expressions EvalTo is called on
ToAsts ==
  {Lit(IntV(1)), Lit(IntV(97)), Lit(IntV(300)), Lit(IntV(-1)),
   Lit(FloatV(5, 2)), Lit(FloatV(-5, 2)), Lit(FloatV(601, 2)),
   Lit(StrV(<<"1", ".", "5">>)), Lit(StrV(<<"1", "0">>)), Lit(StrV(<<"a">>)),
   Lit(BoolV(TRUE)), Var("x"), Var("m"), Var("s"), Var("i"), Var("n"),
   DivZero, FailCall, BoomCall}

\* EvalTo[T](en, e, d) for an expression whose AST is e
EvalToAst(T, en, e, d) ==
  /\ pc = "idle"
  /\ pc' = "done"
  /\ api' = "EvalTo"
  /\ arg' = T
  /\ recv' = en
  /\ ast' = e
  /\ data' = d
  /\ \E l \in {loadFuncs(heap, funcs, en)} :
       /\ \E r \in {evalTop(e, d, l.heap[l.id])} :
            \E o \in evalTo(T, r) : out' = [NoOut EXCEPT !.v = o.v, !.err = o.err, !.ast = e]
       /\ heap' = l.heap
       /\ funcs' = l.funcs
  /\ UNCHANGED <<parserVars, orig, thr>>

EvalToOnData == pc = "idle" /\ \E T \in TargetKinds, e \in ToAsts : EvalToAst(T, "A", e, EvalData)

EvalToOnNil == pc = "idle" /\ \E T \in TargetKinds, e \in ToAsts : EvalToAst(T, "A", e, Nil)

NextTo ==
  \/ EvalToOnData
  \/ EvalToOnNil

SpecTo == InitEval /\ [][NextTo]_vars

\* C19: EvalTo[T] returns Eval's error with the zero T; else the result
\* itself when it has type T; else, for a signed-integer or float T, the
\* result coerced to an integer (a float or a parsed string truncated toward
\* zero) or to a float (a string parsed); else the converted result when its
\* kind converts to T; else an error with the zero T.
C19_EvalTo ==
  (Done /\ api = "EvalTo") =>
    \A r \in {Sub(ast)} :
    LET raw == r.v
        T == arg
        i == toInt64(raw)
        f == toFloat(raw)
        failed == out.err # NoErr /\ out.v = ZeroT(T)
    IN IF r.err # NoErr THEN out.err = r.err /\ out.v = ZeroT(T)
       ELSE IF HasType(raw, T) THEN out.err = NoErr /\ out.v = raw
       ELSE IF T \in SignedKinds /\ raw # Nil /\ i.ok
       THEN out.err = NoErr /\ out.v = IntK(T, WrapTo(T, i.v))
       ELSE IF T \in SignedKinds /\ raw # Nil /\ f.ok
       THEN /\ out.err = NoErr
            /\ out.v.t = T
            /\ ~IsNaN(f.v) => out.v.v = WrapTo(T, QuoT(f.v.n, f.v.d))
       ELSE IF T \in FloatKinds /\ raw # Nil /\ f.ok
       THEN out.err = NoErr /\ out.v = f.v
       ELSE IF Convertible(raw, T)
       THEN out.err = NoErr /\ out.v \in Convert(raw, T)
       ELSE failed

\* EvalTo[int8] on the string '1.5' has returned 1: the string was parsed
\* and the float truncated
C19_Witness ==
  /\ Done
  /\ api = "EvalTo"
  /\ arg = "int8"
  /\ ast = Lit(StrV(<<"1", ".", "5">>))
  /\ out.v = IntK("int8", 1)
  /\ out.err = NoErr

Countable == {"slice", "array", "string", "map"}

\* C21: len(x) is the 64-bit element count of a slice, array, string or map
\* x, the count x.len() returns; it is 0 for any other x and without
\* arguments.
C21_LenFunction ==
  (Done /\ api = "Eval" /\ ast.k = "Call" /\ ast.name = <<"l", "e", "n">> /\ ArgsEvaluate) =>
    IF Len(ast.args) = 0 THEN out.err = NoErr /\ out.v.v = 0
    ELSE \A x \in {Sub(ast.args[1]).v} :
      IF x.t \in Countable
      THEN /\ out.err = NoErr
           /\ out.v = IntV(sizeOf(x))
           /\ out.v = Sub(MethodCallExpr(ast.args[1], <<"l", "e", "n">>, <<>>)).v
      ELSE out.err = NoErr /\ out.v = IntV(0)

\* C24: a member or index access whose receiver evaluates to a map, a slice
\* or an array returns without error, whatever the key; a key that is out
\* of range, negative, not an integer, of the wrong kind or missing gives nil.
C24_KeyNeverFails ==
  (Done /\ api = "Eval" /\ ast.k \in {"MemberAccess", "Index"}) =>
    \A l \in {Sub(ast.left)} :
      (l.err = NoErr /\ l.v.t \in {"map", "slice", "array"}
       /\ (ast.k = "Index" => Sub(ast.index).err = NoErr)) => out.err = NoErr

\* ---------------------------------------------------------------------------
\* Specification of operator grouping: ParseExpr on texts with two operators
\* ---------------------------------------------------------------------------

BinaryOps ==
  {<<"*">>, <<"/">>, <<"%">>, <<"<", "<">>, <<">", ">">>, <<"&">>,
   <<"+">>, <<"-">>, <<"|">>, <<"^">>,
   <<"<">>, <<">">>, <<"<", "=">>, <<">", "=">>,
   <<"=", "=">>, <<"!", "=">>, <<"&", "&">>, <<"|", "|">>}

\* a op1 b op2 c
TwoOps(op1, op2) == <<"a">> \o op1 \o <<"b">> \o op2 \o <<"c">>

\* texts that mix the binary operators with access, unary and ternary
MixedTexts ==
  {<<"-", "a", "*", "b">>, <<"-", "a", ".", "b">>, <<"!", "a", "[", "b", "]">>,
   <<"a", "*", "b", ".", "c">>, <<"a", ".", "b", "*", "c">>, <<"a", "+", "b", "[", "c", "]">>,
   <<"a", "*", "-", "b">>,
   <<"a", "?", "b", ":", "c", "?", "d", ":", "e">>,
   <<"a", "|", "|", "b", "?", "c", ":", "d">>,
   <<"a", "?", "b", ":", "c", "|", "|", "d">>,
   <<"a", "?", "b", "?", "c", ":", "d", ":", "e">>}

PrecTexts == {TwoOps(op1, op2) : op1 \in BinaryOps, op2 \in BinaryOps} \cup MixedTexts

PrecStart == pc = "idle" /\ \E s \in PrecTexts : Start(s, "ParseExpr", Nil)

NextPrec ==
  \/ PrecStart
  \/ ParseEnter
  \/ ParseLoop
  \/ ParseReturn
  \/ ParseExprDone

SpecPrec == Init /\ [][NextPrec]_vars

\* the binding powers the documentation gives
BindingPower(op) ==
  CASE op \in {<<"*">>, <<"/">>, <<"%">>, <<"<", "<">>, <<">", ">">>, <<"&">>} -> 50
    [] op \in {<<"+">>, <<"-">>, <<"|">>, <<"^">>} -> 40
    [] op \in {<<"<">>, <<">">>, <<"<", "=">>, <<">", "=">>} -> 35
    [] op \in {<<"=", "=">>, <<"!", "=">>} -> 30
    [] op = <<"&", "&">> -> 20
    [] op = <<"|", "|">> -> 10

\* the grouping the documentation gives for the mixed texts
MixedAst(s) ==
  CASE s = <<"-", "a", "*", "b">> -> InfixExpr(UnaryExpr(<<"-">>, Var("a")), <<"*">>, Var("b"))
    [] s = <<"-", "a", ".", "b">> -> UnaryExpr(<<"-">>, MemberAccessExpr(Var("a"), <<"b">>))
    [] s = <<"!", "a", "[", "b", "]">> -> UnaryExpr(<<"!">>, IndexExpr(Var("a"), Var("b")))
    [] s = <<"a", "*", "b", ".", "c">> ->
         InfixExpr(Var("a"), <<"*">>, MemberAccessExpr(Var("b"), <<"c">>))
    [] s = <<"a", ".", "b", "*", "c">> ->
         InfixExpr(MemberAccessExpr(Var("a"), <<"b">>), <<"*">>, Var("c"))
    [] s = <<"a", "+", "b", "[", "c", "]">> ->
         InfixExpr(Var("a"), <<"+">>, IndexExpr(Var("b"), Var("c")))
    [] s = <<"a", "*", "-", "b">> -> InfixExpr(Var("a"), <<"*">>, UnaryExpr(<<"-">>, Var("b")))
    [] s = <<"a", "?", "b", ":", "c", "?", "d", ":", "e">> ->
         TernaryExpr(Var("a"), Var("b"), TernaryExpr(Var("c"), Var("d"), Var("e")))
    [] s = <<"a", "|", "|", "b", "?", "c", ":", "d">> ->
         TernaryExpr(InfixExpr(Var("a"), <<"|", "|">>, Var("b")), Var("c"), Var("d"))
    [] s = <<"a", "?", "b", ":", "c", "|", "|", "d">> ->
         TernaryExpr(Var("a"), Var("b"), InfixExpr(Var("c"), <<"|", "|">>, Var("d")))
    [] s = <<"a", "?", "b", "?", "c", ":", "d", ":", "e">> ->
         TernaryExpr(Var("a"), TernaryExpr(Var("b"), Var("c"), Var("d")), Var("e"))

\* C22: in a op1 b op2 c the operator of higher binding power groups tighter
\* and operators of equal power group left to right; access binds tighter
\* than unary, unary tighter than binary, the ternary loosest and to the right.
C22_Precedence ==
  Done =>
    /\ out.err = NoErr
    /\ \A op1, op2 \in BinaryOps :
         text = TwoOps(op1, op2) =>
           ast = IF BindingPower(op1) >= BindingPower(op2)
                 THEN InfixExpr(InfixExpr(Var("a"), op1, Var("b")), op2, Var("c"))
                 ELSE InfixExpr(Var("a"), op1, InfixExpr(Var("b"), op2, Var("c")))
    /\ text \in MixedTexts => ast = MixedAst(text)

\* a + b * c has been parsed with the product as the right operand, and
\* a - b - c with the first difference as the left operand
C22_Witness ==
  /\ Done
  /\ \/ /\ text = TwoOps(<<"+">>, <<"*">>)
        /\ ast = InfixExpr(Var("a"), <<"+">>, InfixExpr(Var("b"), <<"*">>, Var("c")))
     \/ /\ text = TwoOps(<<"-">>, <<"-">>)
        /\ ast = InfixExpr(InfixExpr(Var("a"), <<"-">>, Var("b")), <<"-">>, Var("c"))

\* the receiver of the reflective call at the root: the value of the left
\* operand of a MethodCall, the root data of a Call
Receiver == IF ast.k = "MethodCall" THEN Sub(ast.left).v ELSE data
CalledName == IF ast.k = "MethodCall" THEN ast.method ELSE ast.name

\* C23: a host method called without arguments, through a MethodCall or
\* through a Call that falls back to the root data: its non-nil trailing
\* error is the error of Eval; otherwise its first return value is the
\* result, nil when it returns nothing.
C23_MethodOutcome ==
  (Done /\ api = "Eval" /\ ast.k \in {"MethodCall", "Call"} /\ Len(ast.args) = 0) =>
    \A rc \in {Receiver} :
      (/\ rc.t = "struct"
       /\ CalledName \in DOMAIN rc.methods
       /\ ast.k = "Call" => ~registryHas(heap[funcs[recv]], ast.name)
       /\ Len(rc.methods[CalledName].in) = 0
       /\ rc.methods[CalledName].does # "panic") =>
        \A o \in {callMethod(rc.methods[CalledName], <<>>)} :
          IF o.n > 1 /\ o.err # NoErr THEN out.err = o.err
          ELSE out.err = NoErr /\ out.v = (IF o.n = 0 THEN Nil ELSE o.v)

\* ---------------------------------------------------------------------------
\* Specification of argument lists: ParseExpr on calls a(...) and a.a(...)
\* ---------------------------------------------------------------------------

\* what follows the opening parenthesis
ArgAlphabet == {"1", ",", " ", ")"}
ArgBodies == UNION {[1 .. n -> ArgAlphabet] : n \in 0 .. MaxLen}
ArgTexts == {h \o b : h \in {<<"a", "(">>, <<"a", ".", "a", "(">>}, b \in ArgBodies}

ArgsStart == pc = "idle" /\ \E s \in ArgTexts : Start(s, "ParseExpr", Nil)

NextArgs ==
  \/ ArgsStart
  \/ ParseEnter
  \/ ParseLoop
  \/ ParseArgs
  \/ ParseReturn
  \/ ArgsReturn
  \/ ParseExprDone

SpecArgs == Init /\ [][NextArgs]_vars

Count(s, c) == Cardinality({i \in 1 .. Len(s) : s[i] = c})

\* C25: the arguments of an accepted call are one more than the commas of
\* its list, none for an empty list; a list that is not closed is an error.
C25_ArgumentList ==
  Done =>
    /\ (out.err = NoErr /\ ast.k \in {"Call", "MethodCall"}) =>
         Len(ast.args) = IF Count(text, "1") = 0 /\ Count(text, ",") = 0 THEN 0
                         ELSE Count(text, ",") + 1
    /\ Count(text, ")") = 0 => out.err # NoErr

\* ---------------------------------------------------------------------------
\* Specification of termination: every enabled step of a call is taken
\* ---------------------------------------------------------------------------

\* longest text of the calls of this specification
MaxLive == 3

LiveAlphabet == {"a", "(", ")", "'", ",", "+"}
LiveTexts == UNION {[1 .. n -> LiveAlphabet] : n \in 0 .. MaxLive}

LiveStart == pc = "idle" /\ \E s \in LiveTexts, a \in {"ParseExpr", "Eval"} : Start(s, a, ParseData)

NextLive ==
  \/ LiveStart
  \/ ParseEnter
  \/ ParseLoop
  \/ ParseArgs
  \/ ParseReturn
  \/ ArgsReturn
  \/ ParseExprDone
  \/ EvalDone

\* a call runs on the goroutine of its caller, which nothing inside the
\* engine blocks: a step that can be taken is taken
SpecLive == Init /\ [][NextLive]_vars /\ WF_vars(NextLive)

\* nextToken from any position of the text moves forward or reports the end
LexAdvances ==
  \A q \in 0 .. Len(text) :
    \A r \in {nextToken(text, q)} : r.pos > q \/ (r.err = NoErr /\ r.tok.typ = "tEOF")

\* after a lexer error the token ahead is the end of input
ErrorThenEOF == p.lexErr # NoErr => p.next.typ = "tEOF"

\* parse, unless it returns an error, and an iteration of its loop consume a token
StepConsumes ==
  /\ (pc = "parsing" /\ ctl.op = "parse" /\ ~(ctl'.op = "ret" /\ ctl'.err # NoErr)) =>
       p'.curr.pos > p.curr.pos
  /\ (pc = "parsing" /\ ctl.op = "loop" /\ ~(ctl'.op = "ret" /\ ctl'.err = NoErr)) =>
       p'.curr.pos > p.curr.pos

\* C26: nextToken advances or reports the end of input, parse and each
\* iteration of its loop consume a token, after a lexer error only the end
\* of input is ahead, and every call of ParseExpr and Eval returns.
C26_Terminates ==
  /\ [](LexAdvances /\ ErrorThenEOF)
  /\ [][StepConsumes]_vars
  /\ (pc = "parsing") ~> (pc = "done")

\* a call on a text with an unterminated string has returned the lexer's error
C26_Witness ==
  /\ Done
  /\ text = <<"a", "+", "'">>
  /\ p.lexErr = "unterminated string"
  /\ out.err = "unterminated string"

\* ---------------------------------------------------------------------------
\* Specification of long chains: ParseExpr on texts without nesting
\* ---------------------------------------------------------------------------

\* 1+1+...+1 with n operators, and a.a. ... .a with n accesses
PlusChain(n) == Rep(<<"1", "+">>, n) \o <<"1">>
DotChain(n) == Rep(<<"a", ".">>, n) \o <<"a">>

ChainLengths == {1, 2, MaxStackDepth, MaxStackDepth + 1}
ChainTexts == {PlusChain(n) : n \in ChainLengths} \cup {DotChain(n) : n \in ChainLengths}

ChainStart == pc = "idle" /\ \E s \in ChainTexts : Start(s, "ParseExpr", Nil)

NextChain ==
  \/ ChainStart
  \/ ParseEnter
  \/ ParseLoop
  \/ ParseReturn
  \/ ParseExprDone

SpecChain == Init /\ [][NextChain]_vars

\* the left operand of a node, NoExpr when it has none
Left1(e) == IF e.k \in {"Infix", "MemberAccess", "Index", "MethodCall"} THEN e.left ELSE NoExpr
Left2(e) == CHOOSE y \in {Left1(x) : x \in {Left1(e)}} : TRUE
Left4(e) == CHOOSE y \in {Left2(x) : x \in {Left2(e)}} : TRUE
Left16(e) == CHOOSE y \in {Left4(Left4(x)) : x \in {Left4(Left4(e))}} : TRUE

RECURSIVE LeftHeight(_)
\* the number of nodes on the path from a node down its left operands: Eval
\* and String of an Infix, MemberAccess, Index or MethodCall node call
\* themselves on the left operand, so their recursion is at least this deep
\* (counted sixteen nodes at a time)
LeftHeight(e) ==
  IF e = NoExpr THEN 0
  ELSE IF Left16(e) # NoExpr THEN 16 + LeftHeight(Left16(e))
  ELSE 1 + LeftHeight(Left1(e))

\* C27: the AST of a successful parse is no taller than the deepest
\* activation of parse the guard allows, whatever the length of the text.
C27_HeightBounded ==
  (Done /\ out.err = NoErr /\ out.ast # NoExpr) => LeftHeight(ast) <= MaxStackDepth + 1

\* the text of an identifier or number token
NameLike(key) ==
  /\ key # <<>>
  /\ \A i \in 1 .. Len(key) : IsLetter(key[i]) \/ IsDigit(key[i]) \/ key[i] \in {"_", "."}
  /\ key[1] # "."

RECURSIVE KeysNameLike(_), AllKeysNameLike(_)
AllKeysNameLike(es) == \A i \in 1 .. Len(es) : KeysNameLike(es[i])

\* every MemberAccess and MethodCall node below e has a key that is the text
\* of an identifier or number token
KeysNameLike(e) ==
  CASE e.k \in {"Literal", "Variable"} -> TRUE
    [] e.k = "MemberAccess" -> NameLike(e.key) /\ KeysNameLike(e.left)
    [] e.k = "Index" -> KeysNameLike(e.left) /\ KeysNameLike(e.index)
    [] e.k = "MethodCall" -> NameLike(e.method) /\ KeysNameLike(e.left) /\ AllKeysNameLike(e.args)
    [] e.k = "Call" -> AllKeysNameLike(e.args)
    [] e.k = "Unary" -> KeysNameLike(e.right)
    [] e.k = "Infix" -> KeysNameLike(e.left) /\ KeysNameLike(e.right)
    [] e.k = "Ternary" -> KeysNameLike(e.cond) /\ KeysNameLike(e.then) /\ KeysNameLike(e.else)

\* C28: no MemberAccess or MethodCall node of an AST the parser returns has
\* an empty key or the text of an operator or of punctuation as its key.
C28_MemberNames ==
  (Done /\ out.err = NoErr /\ out.ast # NoExpr) => KeysNameLike(ast)


\* the goroutines other than t run no RegisterFunc: the only Store besides
\* t's own is the one in the recover of loadFuncs
OnlyRegistration(t) == \A u \in Threads \ {t} : thr[u].op # "RegisterFunc"

\* C29: on an engine used from its zero value, once RegisterFunc(n, f) has
\* returned nil, n is in the current snapshot in every later state, also
\* while the first Eval of another goroutine runs its lazy initialisation.
C29_LazyInitKeeps ==
  \A t \in Threads : (Registered(t) /\ OnlyRegistration(t)) =>
    (funcs["A"] # 0 /\ thr[t].name \in DOMAIN heap[funcs["A"]])


\* the text is one number token: a digit followed by digits and points
NumberText(s) == s # <<>> /\ s[1] \in Digits /\ \A i \in 1 .. Len(s) : s[i] \in Digits \cup {"."}
Points(s) == {i \in 1 .. Len(s) : s[i] = "."}
WellFormed(s) == Cardinality(Points(s)) <= 1

\* the number a well-formed text denotes: an int64 without a point, else the
\* float of its digits over the power of ten of the digits after the point
Denoted(s) ==
  IF Points(s) = {} THEN IntV(DigitsVal(s))
  ELSE LET dot == CHOOSE i \in Points(s) : TRUE
           frac == SubSeq(s, dot + 1, Len(s))
       IN FloatV(DigitsVal(SubSeq(s, 1, dot - 1) \o frac), Pow10(Len(frac)))

\* C30: a number token that the parser turns into a Literal is well formed
\* (digits with at most one point) and the Literal holds the number the text
\* denotes; number text that is not well formed is a syntax error.
C30_NumberLiteral ==
  (Done /\ api = "ParseExpr" /\ NumberText(text) /\ out.err = NoErr) =>
    (WellFormed(text) /\ ast = LiteralExpr(Denoted(text)))

\* the same for well-formed text only
C30_WellFormedOnly ==
  (Done /\ api = "ParseExpr" /\ NumberText(text) /\ WellFormed(text) /\ out.err = NoErr) =>
    ast = LiteralExpr(Denoted(text))

====
